---- MODULE Spec2Model ----
(***************************************************************************)
(* Model of githelper (EndlessUpHill/git-helper): a cobra CLI whose        *)
(* subcommands are short scripts of external-process calls, console        *)
(* prompts and interactive selections.                                     *)
(*                                                                         *)
(* One action of the model is one process run of one subcommand.  Its      *)
(* inputs (arguments, flags, the answers of git and fzf, the bytes on      *)
(* standard input) are chosen from small sets and kept in `inp`; what the  *)
(* run did (the ordered trace of external-process calls and console        *)
(* output, the selector outcomes, the returned error, the exit code) is    *)
(* computed by operators translated from the handlers and kept in `res`.   *)
(* Text is modelled by TLA+ strings, processed character by character      *)
(* where the Go code does so (fmt.Scanln, fmt.Sscanf, strconv.Atoi,        *)
(* strings.Fields, slicing).                                               *)
(***************************************************************************)
EXTENDS Integers, Sequences, FiniteSets, TLC

VARIABLES inp, res

vars == <<inp, res>>

---------------------------------------------------------------------------
(* Bounds of the model *)

\* number of lines in a listing printed by git (branches, files, commits...)
MaxItems == 2

---------------------------------------------------------------------------
(* Text helpers: Go's strings / strconv / fmt scanning *)

Digits == {"0", "1", "2", "3", "4", "5", "6", "7", "8", "9"}

DigitVal(c) ==
  CASE c = "0" -> 0 [] c = "1" -> 1 [] c = "2" -> 2 [] c = "3" -> 3
    [] c = "4" -> 4 [] c = "5" -> 5 [] c = "6" -> 6 [] c = "7" -> 7
    [] c = "8" -> 8 [] c = "9" -> 9

DigitChr(d) == SubSeq("0123456789", d + 1, d + 1)

RECURSIVE Itoa(_)
\* strconv.Itoa / %d of a non-negative number
Itoa(n) == IF n < 10 THEN DigitChr(n) ELSE Itoa(n \div 10) \o DigitChr(n % 10)

\* fmt's %2d
Pad2(n) == IF n < 10 THEN " " \o Itoa(n) ELSE Itoa(n)

RECURSIVE DecVal(_, _)
\* value of a string of decimal digits, most significant first
DecVal(s, acc) == IF s = "" THEN acc ELSE DecVal(Tail(s), 10 * acc + DigitVal(Head(s)))

RECURSIVE AllIn(_, _)
AllIn(s, set) == s = "" \/ (Head(s) \in set /\ AllIn(Tail(s), set))

RECURSIVE RunLen(_, _)
\* length of the longest prefix of s made of characters of set
RunLen(s, set) == IF s = "" \/ Head(s) \notin set THEN 0 ELSE 1 + RunLen(Tail(s), set)

\* unicode.IsSpace, for the characters the model uses
Blank == {" ", "\t"}

White == Blank \cup {"\n"}

RECURSIVE SkipSp(_)
SkipSp(s) == IF s # "" /\ Head(s) \in Blank THEN SkipSp(Tail(s)) ELSE s

RECURSIVE TokenLen(_)
\* length of the longest prefix of s holding no blank and no newline
TokenLen(s) == IF s = "" \/ Head(s) \in White THEN 0 ELSE 1 + TokenLen(Tail(s))

Drop(s, n) == SubSeq(s, n + 1, Len(s))

HasPrefix(s, p) == Len(p) <= Len(s) /\ SubSeq(s, 1, Len(p)) = p

HasSuffix(s, p) == Len(p) <= Len(s) /\ SubSeq(s, Len(s) - Len(p) + 1, Len(s)) = p

TrimPrefix(s, p) == IF HasPrefix(s, p) THEN Drop(s, Len(p)) ELSE s

RECURSIVE TrimLeft(_)
TrimLeft(s) == IF s # "" /\ Head(s) \in White THEN TrimLeft(Tail(s)) ELSE s

RECURSIVE TrimRight(_)
TrimRight(s) ==
  IF s # "" /\ SubSeq(s, Len(s), Len(s)) \in White
  THEN TrimRight(SubSeq(s, 1, Len(s) - 1)) ELSE s

\* strings.TrimSpace
TrimSpace(s) == TrimRight(TrimLeft(s))

RECURSIVE Fields(_)
\* strings.Fields: the maximal runs of non-blank characters
Fields(s) ==
  LET a == TrimLeft(s) IN
  IF a = "" THEN <<>>
  ELSE LET n == TokenLen(a) IN <<SubSeq(a, 1, n)>> \o Fields(Drop(a, n))

RECURSIVE IndexOf(_, _)
\* 0-based position of the first c in s, Len(s) when there is none
IndexOf(s, c) == IF s = "" \/ Head(s) = c THEN 0 ELSE 1 + IndexOf(Tail(s), c)

RECURSIVE SplitN(_, _, _)
\* strings.SplitN(s, sep, n) for a one-character separator and n >= 1
SplitN(s, sep, n) ==
  LET i == IndexOf(s, sep) IN
  IF n = 1 \/ i = Len(s) THEN <<s>>
  ELSE <<SubSeq(s, 1, i)>> \o SplitN(Drop(s, i + 1), sep, n - 1)

Range(q) == {q[i] : i \in 1..Len(q)}

\* the element of a one-element set.  The({ F(x) : x \in {e} }) is F(e) with
\* e computed once, as the code computes a local once
The(S) == CHOOSE x \in S : TRUE

Lower == "abcdefghijklmnopqrstuvwxyz"

Upper == "ABCDEFGHIJKLMNOPQRSTUVWXYZ"

RECURSIVE ToLower(_)
\* strings.ToLower
ToLower(s) ==
  IF s = "" THEN ""
  ELSE LET i == IndexOf(Upper, Head(s))
       IN (IF i < Len(Upper) THEN SubSeq(Lower, i + 1, i + 1) ELSE SubSeq(s, 1, 1))
          \o ToLower(Tail(s))

RECURSIVE ToUpper(_)
\* strings.ToUpper
ToUpper(s) ==
  IF s = "" THEN ""
  ELSE LET i == IndexOf(Lower, Head(s))
       IN (IF i < Len(Lower) THEN SubSeq(Upper, i + 1, i + 1) ELSE SubSeq(s, 1, 1))
          \o ToUpper(Tail(s))

RECURSIVE Pow10(_)
Pow10(n) == IF n = 0 THEN 1 ELSE 10 * Pow10(n - 1)

RECURSIVE JoinLines(_)
\* the text of a command's standard output: every line ends in a newline
JoinLines(ls) == IF ls = <<>> THEN "" ELSE Head(ls) \o "\n" \o JoinLines(Tail(ls))

\* strings.Split(s, "\n")
SplitLines(s) == SplitN(s, "\n", Len(s) + 1)

\* fmt.Scanln(&str) on the unbuffered standard input: blanks are skipped, an
\* empty line or end of input leaves the variable empty, one token is read,
\* and the scan then consumes up to the newline or up to and including the
\* first character of a second token.
Scanln(in) ==
  LET a == SkipSp(in) IN
  IF a = "" THEN [tok |-> "", rest |-> ""]
  ELSE IF Head(a) = "\n" THEN [tok |-> "", rest |-> Tail(a)]
  ELSE LET n == TokenLen(a)
           b == SkipSp(Drop(a, n))
       IN [tok |-> SubSeq(a, 1, n), rest |-> IF b = "" THEN "" ELSE Tail(b)]

\* fmt.Sscanf(input, "%d", &index): optional sign, then the longest run of
\* digits and underscores, handed to strconv.ParseInt(tok, 10, 64); input
\* left over after the number is not an error.
Sscanf(input) ==
  LET signed == input # "" /\ Head(input) \in {"+", "-"}
      body == IF signed THEN Tail(input) ELSE input
      n == RunLen(body, Digits \cup {"_"})
      num == SubSeq(body, 1, n)
  IN IF n = 0 \/ ~AllIn(num, Digits)
     THEN [ok |-> FALSE, val |-> 0]
     ELSE [ok |-> TRUE,
           val |-> IF signed /\ Head(input) = "-" THEN 0 - DecVal(num, 0) ELSE DecVal(num, 0)]

\* strconv.Atoi: optional sign, then one or more digits and nothing else
Atoi(s) ==
  LET signed == s # "" /\ Head(s) \in {"+", "-"}
      body == IF signed THEN Tail(s) ELSE s
  IN IF body = "" \/ ~AllIn(body, Digits)
     THEN [ok |-> FALSE, val |-> 0]
     ELSE [ok |-> TRUE,
           val |-> IF signed /\ Head(s) = "-" THEN 0 - DecVal(body, 0) ELSE DecVal(body, 0)]

---------------------------------------------------------------------------
(* The state threaded through one run, and its events *)

\* an event of a run: k is "exec" (an external process was started),
\* "menu" / "prompt" / "print" (console output) or "chdir"
Ev(k, cmd, arg) == [k |-> k, cmd |-> cmd, arg |-> arg]

\* the state at the start of a run with standard input `stdin`
Begin(stdin) == [trace |-> <<>>, in |-> stdin, sels |-> <<>>]

\* exec.Command(...).Run() / .Output(): the call is recorded
Ex(s, cmd, arg) == [s EXCEPT !.trace = Append(@, Ev("exec", cmd, arg))]

\* fmt.Print*: console output ("print", "menu", "prompt"); also the other
\* things a run is observed to do: the token read at a confirmation
\* ("answer"), the exit status of fzf ("exit"), os.Chdir ("chdir") and a
\* request to the text-generation API ("http")
Pr(s, k, arg) == [s EXCEPT !.trace = Append(@, Ev(k, "", arg))]

\* several lines printed one after the other
PrAll(s, lines) ==
  [s EXCEPT !.trace = @ \o [i \in 1..Len(lines) |-> Ev("print", "", lines[i])]]

\* whether the external command runs and exits zero in world w: it cannot
\* start when git is not on the search path (w.git), and w.fail names the
\* commands that exit non-zero, with or without their argument.  Run() and
\* Output() return a non-nil error in both cases.
Ok(w, cmd, arg) ==
  /\ HasPrefix(cmd, "git") => w.git
  /\ cmd \notin w.fail /\ (cmd \o " " \o arg) \notin w.fail

\* main: exit status of the process
main(r) == IF r.panic THEN 2 ELSE IF r.err # "" THEN 1 ELSE 0

\* the result of a run, with the exit status main gives it
Finish(r) ==
  [trace |-> r.trace, rest |-> r.rest, sels |-> r.sels, err |-> r.err,
   panic |-> r.panic, exit |-> main(r)]

\* the handler returns err ("" is nil), which ends the run
Ret(s, err) ==
  res' = Finish([trace |-> s.trace, rest |-> s.in, sels |-> s.sels, err |-> err, panic |-> FALSE])

\* the run ends in a Go runtime panic (index or slice out of range)
Crash(s) ==
  res' = Finish([trace |-> s.trace, rest |-> s.in, sels |-> s.sels, err |-> "", panic |-> TRUE])

\* the outcome of one selector call, appended to the run's sels: the strategy
\* taken ("fzf", "list", or "none" when the selector returned before choosing
\* one), the identifiers of the candidates in the order presented, the token
\* typed (list strategy), and what the selector returned
SelDone(s, strategy, ids, typed, id, err, panic) ==
  [s |-> [s EXCEPT !.sels = Append(@, [strategy |-> strategy, cands |-> ids, typed |-> typed,
                                        id |-> id, err |-> err, panic |-> panic])],
   id |-> id, err |-> err, panic |-> panic]

---------------------------------------------------------------------------
(* Pieces shared by the handlers *)

\* a checkGitRepo that never fails
checkGitRepoNeverFails(s, w) ==
  [s |-> Ex(s, "git rev-parse --git-dir", ""), err |-> ""]

\* checkGitRepo: `git rev-parse --git-dir`; any failure of the call is
\* reported as "not a git repository"
checkGitRepo(s, w) ==
  [s |-> Ex(s, "git rev-parse --git-dir", ""),
   err |-> IF w.git /\ w.inRepo THEN "" ELSE "not a git repository"]

\* confirmAction: prompt, read one token (recorded as "answer"), consent only
\* for "y" or "Y"
confirmAction(s) ==
  LET sc == Scanln(s.in) IN
  [s |-> [Pr(Pr(s, "prompt", "Are you sure you want to continue? [y/N]: "), "answer", sc.tok)
            EXCEPT !.in = sc.rest],
   yes |-> sc.tok = "y" \/ sc.tok = "Y"]

\* hasUncommittedChanges: `git status --porcelain`, true when it prints anything
hasUncommittedChanges(s, w) ==
  [s |-> Ex(s, "git status --porcelain", ""),
   err |-> IF Ok(w, "git status --porcelain", "") THEN "" ELSE "failed to check git status",
   changes |-> Ok(w, "git status --porcelain", "") /\ w.dirty]

\* the fuzzy finder started on `lines`: it exits non-zero when the user
\* presses Escape (no pick) and otherwise prints the picked line(s)
Fzf(s, picks, lines, multi) ==
  LET valid == picks # <<>> /\ \A i \in 1..Len(picks) : picks[i] \in 1..Len(lines)
      chosen == IF multi THEN picks ELSE <<Head(picks)>>
  IN [s |-> Pr(Ex(s, "fzf", ""), "exit", IF valid THEN "0" ELSE "1"),
      ok |-> valid,
      out |-> IF valid THEN JoinLines([i \in 1..Len(chosen) |-> lines[chosen[i]]]) ELSE ""]

RECURSIVE Menu(_, _, _)
\* the numbered menu of the list strategy, one "%2d: %s" line per label
Menu(s, labels, i) ==
  IF i > Len(labels) THEN s
  ELSE Menu(Pr(s, "menu", Pad2(i) \o ": " \o labels[i]), labels, i + 1)

\* the end of every list strategy: prompt, fmt.Scanln, empty input cancels,
\* fmt.Sscanf("%d") and the range check 1..n
ReadIndex(s, n, prompt) ==
  LET sc == Scanln(s.in)
      p == Sscanf(sc.tok)
  IN [s |-> [Pr(s, "prompt", prompt) EXCEPT !.in = sc.rest],
      tok |-> sc.tok,
      kind |-> IF sc.tok = "" THEN "cancel"
               ELSE IF ~p.ok \/ p.val < 1 \/ p.val > n THEN "invalid"
               ELSE "index",
      idx |-> p.val]

---------------------------------------------------------------------------
(* switch *)

\* time.Parse("2006-01-02 15:04:05 -0700", dateStr): the layout holds date,
\* time and zone separated by blanks; anything else is an error and the
\* caller keeps the zero time ("").  Parsed times of one zone are ordered as
\* their text is.
ParseDate(dateStr) ==
  IF Len(Fields(dateStr)) # 3 \/ Len(dateStr) # 25 THEN "" ELSE dateStr

\* Time.Format("2006-01-02 15:04:05"); the zero time is year 1
FormatDate(d) == IF d = "" THEN "0001-01-01 00:00:00" ELSE SubSeq(d, 1, 19)

Ascii == "\t\n *+-./0123456789:ABCDEFGHIJKLMNOPQRSTUVWXYZ_abcdefghijklmnopqrstuvwxyz"

RECURSIVE StrLess(_, _)
\* Go's < on strings: bytewise lexicographic order
StrLess(a, b) ==
  IF b = "" THEN FALSE
  ELSE IF a = "" THEN TRUE
  ELSE IF Head(a) = Head(b) THEN StrLess(Tail(a), Tail(b))
  ELSE IndexOf(Ascii, Head(a)) < IndexOf(Ascii, Head(b))

\* the less functions handed to sort.Slice: sortBranchesByDate (After),
\* sortBranchesByName, and getLargeFiles (larger size first)
BranchLess(by, x, y) ==
  IF by = "date" THEN StrLess(y.LastCommitDate, x.LastCommitDate)
  ELSE IF by = "name" THEN StrLess(x.Name, y.Name)
  ELSE x.Size > y.Size

RECURSIVE Sink(_, _, _)
\* inner loop of insertion sort: move element j down while it is less
Sink(data, j, by) ==
  IF j > 1 /\ BranchLess(by, data[j], data[j - 1])
  THEN The({ Sink(swapped, j - 1, by) :
             swapped \in {[data EXCEPT ![j] = data[j - 1], ![j - 1] = data[j]]} })
  ELSE data

RECURSIVE InsertionSort(_, _, _)
\* sort.Slice on a slice of at most 12 elements is an insertion sort
InsertionSort(data, i, by) ==
  IF i > Len(data) THEN data
  ELSE The({ InsertionSort(sunk, i + 1, by) : sunk \in {Sink(data, i, by)} })

sortBranchesByDate(branches) == InsertionSort(branches, 2, "date")

sortBranchesByName(branches) == InsertionSort(branches, 2, "name")

RECURSIVE ParseBranches(_)
\* the loop of getBranches: lines with fewer than 4 blank-separated parts are skipped
ParseBranches(lines) ==
  IF lines = <<>> THEN <<>>
  ELSE LET parts == SplitN(Head(lines), " ", 4)
       IN (IF Len(parts) < 4 THEN <<>>
           ELSE <<[Name |-> parts[1], LastCommitHash |-> parts[2],
                   LastCommitDate |-> ParseDate(parts[3]), LastCommitMsg |-> parts[4],
                   Current |-> HasPrefix(parts[1], "* ")]>>)
          \o ParseBranches(Tail(lines))

\* getBranches: `git branch [-a] --format ...`, parse, sort
getBranches(s, fl, w) ==
  LET arg == IF fl.showAll THEN "-a" ELSE ""
      s1 == Ex(s, "git branch --format", arg)
      parsed == ParseBranches(SplitLines(TrimSpace(JoinLines(w.out))))
  IN IF ~Ok(w, "git branch --format", arg)
     THEN [s |-> s1, err |-> "failed to list branches", branches |-> <<>>]
     ELSE [s |-> s1, err |-> "",
           branches |-> IF fl.sortBy = "name" THEN sortBranchesByName(parsed)
                        ELSE sortBranchesByDate(parsed)]

Names(branches) == [i \in 1..Len(branches) |-> branches[i].Name]

selectBranchWithFzf(s, w, branches) ==
  LET lines == [i \in 1..Len(branches) |->
                  branches[i].Name \o "\t" \o FormatDate(branches[i].LastCommitDate)
                    \o "\t" \o branches[i].LastCommitMsg]
      f == Fzf(s, w.picks, lines, FALSE)
      selected == Fields(TrimSpace(f.out))
  IN IF ~f.ok THEN SelDone(f.s, "fzf", Names(branches), "", "", "", FALSE)
     ELSE IF selected = <<>> THEN SelDone(f.s, "fzf", Names(branches), "", "", "", TRUE)
     ELSE SelDone(f.s, "fzf", Names(branches), "", selected[1], "", FALSE)

selectBranchWithList(s, branches) ==
  LET labels == [i \in 1..Len(branches) |->
                   branches[i].Name \o " (" \o SubSeq(FormatDate(branches[i].LastCommitDate), 1, 10)
                     \o ") - " \o branches[i].LastCommitMsg]
      r == ReadIndex(Menu(Pr(s, "print", "Available branches:"), labels, 1), Len(branches),
                     "Select branch number (or press Enter to cancel): ")
  IN IF r.kind = "cancel" THEN SelDone(r.s, "list", Names(branches), r.tok, "", "", FALSE)
     ELSE IF r.kind = "invalid"
          THEN SelDone(r.s, "list", Names(branches), r.tok, "", "invalid selection", FALSE)
     ELSE SelDone(r.s, "list", Names(branches), r.tok, branches[r.idx].Name, "", FALSE)

selectBranch(s, fl, w, branches) ==
  IF ~fl.noFzf /\ w.fzf THEN selectBranchWithFzf(s, w, branches)
  ELSE selectBranchWithList(s, branches)

runSwitch(args, fl, w, stdin) ==
  \E c \in {checkGitRepo(Begin(stdin), w)} :
  IF c.err # "" THEN Ret(c.s, c.err) ELSE
  \E h \in {hasUncommittedChanges(c.s, w)} :
  IF h.err # "" THEN Ret(h.s, h.err) ELSE
  IF h.changes THEN Ret(h.s, "you have uncommitted changes. Please commit or stash them first") ELSE
  \E g \in {getBranches(h.s, fl, w)} :
  IF g.err # "" THEN Ret(g.s, g.err) ELSE
  IF Len(g.branches) = 0 THEN Ret(g.s, "no branches found") ELSE
  \E sel \in {selectBranch(g.s, fl, w, g.branches)} :
  IF sel.panic THEN Crash(sel.s) ELSE
  IF sel.err # "" THEN Ret(sel.s, sel.err) ELSE
  IF sel.id = "" THEN Ret(sel.s, "no branch selected") ELSE
  \E k \in {Ex(sel.s, "git checkout", sel.id)} :
  IF ~Ok(w, "git checkout", sel.id) THEN Ret(k, "failed to switch branch") ELSE
  Ret(k, "")

---------------------------------------------------------------------------
(* restore *)

\* the selectors of restore and recover print at most this many entries
ShowLimit == 20

\* length of the hash prefix shown in labels and messages (Hash[:8], commit[:8])
ShortHash == 8

RECURSIVE parseReflogLines(_)
\* the loop of parseReflog: a line without a blank is dropped
parseReflogLines(lines) ==
  IF lines = <<>> THEN <<>>
  ELSE LET parts == SplitN(Head(lines), " ", 2)
       IN (IF Len(parts) = 2 THEN <<[Hash |-> parts[1], Action |-> "", Description |-> parts[2]]>>
           ELSE <<>>)
          \o parseReflogLines(Tail(lines))

\* parseReflog: bufio.Scanner yields the lines of the text
parseReflog(lines) == parseReflogLines(lines)

Hashes(entries) == [i \in 1..Len(entries) |-> entries[i].Hash]

\* whether one of the first n entries has a hash too short for Hash[:8]
ShortIn(entries, n) ==
  \E i \in 1..Len(entries) : i <= n /\ Len(entries[i].Hash) < ShortHash

RECURSIVE FirstWithPrefix(_, _)
\* the loop that maps the picked short hash back to an entry
FirstWithPrefix(entries, short) ==
  IF entries = <<>> THEN ""
  ELSE IF HasPrefix(Head(entries).Hash, short) THEN Head(entries).Hash
  ELSE FirstWithPrefix(Tail(entries), short)

selectCommitWithFzf(s, w, entries) ==
  IF ShortIn(entries, Len(entries)) THEN SelDone(s, "fzf", Hashes(entries), "", "", "", TRUE) ELSE
  LET lines == [i \in 1..Len(entries) |->
                  SubSeq(entries[i].Hash, 1, ShortHash) \o " " \o entries[i].Description]
      f == Fzf(s, w.picks, lines, FALSE)
      parts == Fields(TrimSpace(f.out))
  IN IF ~f.ok \/ parts = <<>> THEN SelDone(f.s, "fzf", Hashes(entries), "", "", "", FALSE)
     ELSE SelDone(f.s, "fzf", Hashes(entries), "", FirstWithPrefix(entries, parts[1]), "", FALSE)

Min(a, b) == IF a < b THEN a ELSE b

\* the number of entries printed before an entry with a hash too short for
\* Hash[:8] stops the first n of them
BeforeShort(entries, n) ==
  IF ShortIn(entries, n)
  THEN (CHOOSE i \in 1..Len(entries) :
          /\ Len(entries[i].Hash) < ShortHash
          /\ \A j \in 1..(i - 1) : Len(entries[j].Hash) >= ShortHash) - 1
  ELSE Min(Len(entries), n)

\* the labels of the first n entries in restore's menu
ReflogLabels(entries, n) ==
  [i \in 1..n |-> SubSeq(entries[i].Hash, 1, ShortHash) \o " - " \o entries[i].Description]

selectCommitWithList(s, entries) ==
  LET s1 == Menu(Pr(s, "print", "Recent git actions:"),
                 ReflogLabels(entries, BeforeShort(entries, ShowLimit)), 1) IN
  IF ShortIn(entries, ShowLimit) THEN SelDone(s1, "list", Hashes(entries), "", "", "", TRUE) ELSE
  LET r == ReadIndex(s1, Len(entries),
                     "Select commit number (or press Enter to cancel): ")
  IN IF r.kind = "index"
     THEN SelDone(r.s, "list", Hashes(entries), r.tok, entries[r.idx].Hash, "", FALSE)
     ELSE SelDone(r.s, "list", Hashes(entries), r.tok, "", "", FALSE)

\* a selectCommit that ignores --no-fzf
selectCommitIgnoringFlag(s, fl, w, entries) ==
  IF w.fzf THEN selectCommitWithFzf(s, w, entries) ELSE selectCommitWithList(s, entries)

selectCommit(s, fl, w, entries) ==
  IF ~fl.noFzf /\ w.fzf THEN selectCommitWithFzf(s, w, entries)
  ELSE selectCommitWithList(s, entries)

\* getBranchName: prompt, read one token, trim it
getBranchName(s) ==
  LET sc == Scanln(s.in) IN
  [s |-> [Pr(s, "prompt", "Enter a name for the restored branch: ") EXCEPT !.in = sc.rest],
   name |-> TrimSpace(sc.tok)]

runRestore(args, fl, w, stdin) ==
  \E c \in {checkGitRepo(Begin(stdin), w)} :
  IF c.err # "" THEN Ret(c.s, c.err) ELSE
  \E g \in {Ex(c.s, "git reflog", "")} :
  IF ~Ok(w, "git reflog", "") THEN Ret(g, "failed to get git reflog") ELSE
  \E entries \in {parseReflog(w.out)} :
  IF Len(entries) = 0 THEN Ret(g, "no git history found") ELSE
  \E sel \in {selectCommit(g, fl, w, entries)} :
  IF sel.panic THEN Crash(sel.s) ELSE
  IF sel.id = "" THEN Ret(Pr(sel.s, "print", "No commit selected"), "") ELSE
  \E b \in {getBranchName(sel.s)} :
  IF b.name = "" THEN Ret(Pr(b.s, "print", "No branch name provided"), "") ELSE
  \E k \in {Ex(b.s, "git checkout -b", b.name \o " " \o sel.id)} :
  IF ~Ok(w, "git checkout -b", b.name \o " " \o sel.id) THEN Ret(k, "failed to create branch") ELSE
  Ret(k, "")

---------------------------------------------------------------------------
(* recover *)

RECURSIVE ParseReflogEntries(_)
\* the loop of getReflogEntries: "<hash> <selector> <subject>", shorter lines dropped
ParseReflogEntries(lines) ==
  IF lines = <<>> THEN <<>>
  ELSE LET parts == SplitN(Head(lines), " ", 3)
       IN (IF Len(parts) >= 3
           THEN <<[Hash |-> parts[1], Action |-> parts[2], Description |-> parts[3]]>>
           ELSE <<>>)
          \o ParseReflogEntries(Tail(lines))

getReflogEntries(s, w) ==
  [s |-> Ex(s, "git reflog --pretty", ""),
   err |-> IF Ok(w, "git reflog --pretty", "") THEN "" ELSE "failed to get reflog",
   entries |-> IF Ok(w, "git reflog --pretty", "")
               THEN ParseReflogEntries(SplitLines(TrimSpace(JoinLines(w.out)))) ELSE <<>>]

RecoverLabels(entries, n) ==
  [i \in 1..n |->
     SubSeq(entries[i].Hash, 1, ShortHash) \o " " \o entries[i].Action \o ": " \o entries[i].Description]

selectCommitWithFzfFromReflog(s, w) ==
  LET g == getReflogEntries(s, w) IN
  IF g.err # "" THEN SelDone(g.s, "fzf", <<>>, "", "", g.err, FALSE) ELSE
  IF ShortIn(g.entries, Len(g.entries))
  THEN SelDone(g.s, "fzf", Hashes(g.entries), "", "", "", TRUE) ELSE
  LET f == Fzf(g.s, w.picks, RecoverLabels(g.entries, Len(g.entries)), FALSE)
      parts == Fields(TrimSpace(f.out))
  IN IF ~f.ok THEN SelDone(f.s, "fzf", Hashes(g.entries), "", "", "", FALSE)
     ELSE IF parts = <<>> THEN SelDone(f.s, "fzf", Hashes(g.entries), "", "", "", TRUE)
     ELSE SelDone(f.s, "fzf", Hashes(g.entries), "", parts[1], "", FALSE)

selectCommitWithListFromReflog(s, w) ==
  LET g == getReflogEntries(s, w) IN
  IF g.err # "" THEN SelDone(g.s, "list", <<>>, "", "", g.err, FALSE) ELSE
  LET s1 == Menu(Pr(g.s, "print", "Recent git actions:"),
                 RecoverLabels(g.entries, BeforeShort(g.entries, ShowLimit)), 1) IN
  IF ShortIn(g.entries, ShowLimit)
  THEN SelDone(s1, "list", Hashes(g.entries), "", "", "", TRUE) ELSE
  LET r == ReadIndex(s1, Len(g.entries),
                     "Select action number (or press Enter to cancel): ")
  IN IF r.kind = "cancel" THEN SelDone(r.s, "list", Hashes(g.entries), r.tok, "", "", FALSE)
     ELSE IF r.kind = "invalid"
          THEN SelDone(r.s, "list", Hashes(g.entries), r.tok, "", "invalid selection", FALSE)
     ELSE SelDone(r.s, "list", Hashes(g.entries), r.tok, g.entries[r.idx].Hash, "", FALSE)

selectCommitFromReflog(s, fl, w) ==
  IF ~fl.noFzf /\ w.fzf THEN selectCommitWithFzfFromReflog(s, w)
  ELSE selectCommitWithListFromReflog(s, w)

runRecover(args, fl, w, stdin) ==
  \E c \in {checkGitRepo(Begin(stdin), w)} :
  IF c.err # "" THEN Ret(c.s, c.err) ELSE
  \E st \in {Ex(c.s, "git status --porcelain", "")} :
  IF ~Ok(w, "git status --porcelain", "") THEN Ret(st, "failed to check git status") ELSE
  IF w.dirty THEN Ret(st, "you have uncommitted changes. Please commit or stash them first") ELSE
  \E sel \in {selectCommitFromReflog(st, fl, w)} :
  IF sel.panic THEN Crash(sel.s) ELSE
  IF sel.err # "" THEN Ret(sel.s, sel.err) ELSE
  IF sel.id = "" THEN Ret(sel.s, "no commit selected") ELSE
  \E q \in {confirmAction(sel.s)} :
  IF ~q.yes THEN Ret(Pr(q.s, "print", "Operation cancelled"), "") ELSE
  \E k \in {Ex(q.s, "git reset --hard", sel.id)} :
  IF ~Ok(w, "git reset --hard", sel.id) THEN Ret(k, "failed to reset to commit") ELSE
  Ret(k, "")

---------------------------------------------------------------------------
(* purge *)

selectFileWithFzf(s, w) ==
  LET l == Ex(s, "git ls-files", "") IN
  IF ~Ok(w, "git ls-files", "") THEN SelDone(l, "fzf", <<>>, "", "", "failed to list files", FALSE) ELSE
  LET f == Fzf(l, w.picks, w.out, FALSE)
  IN IF ~f.ok THEN SelDone(f.s, "fzf", w.out, "", "", "", FALSE)
     ELSE SelDone(f.s, "fzf", w.out, "", TrimSpace(f.out), "", FALSE)

selectFileWithList(s, w) ==
  LET l == Ex(s, "git ls-files", "") IN
  IF ~Ok(w, "git ls-files", "") THEN SelDone(l, "list", <<>>, "", "", "failed to list files", FALSE) ELSE
  LET files == SplitLines(TrimSpace(JoinLines(w.out)))
      r == ReadIndex(Menu(Pr(l, "print", "Tracked files:"), files, 1), Len(files),
                     "Select file number (or press Enter to cancel): ")
  IN IF r.kind = "cancel" THEN SelDone(r.s, "list", files, r.tok, "", "", FALSE)
     ELSE IF r.kind = "invalid" THEN SelDone(r.s, "list", files, r.tok, "", "invalid selection", FALSE)
     ELSE SelDone(r.s, "list", files, r.tok, files[r.idx], "", FALSE)

selectFile(s, fl, w) ==
  IF ~fl.noFzf /\ w.fzf THEN selectFileWithFzf(s, w) ELSE selectFileWithList(s, w)

\* the part of runPurge after the file is known
PurgeFile(s, fl, w, fileToPurge) ==
  \E q \in {confirmAction(s)} :
  IF ~q.yes THEN Ret(Pr(q.s, "print", "Operation cancelled"), "") ELSE
  \E k \in {Ex(q.s, "git filter-branch", fileToPurge)} :
  IF ~Ok(w, "git filter-branch", fileToPurge) THEN Ret(k, "failed to remove file from history") ELSE
  IF ~fl.forcePush THEN Ret(k, "") ELSE
  \E p \in {Ex(k, "git push origin --force --all", "")} :
  IF ~Ok(w, "git push origin --force --all", "") THEN Ret(p, "failed to force push") ELSE
  Ret(p, "")

runPurge(args, fl, w, stdin) ==
  \E c \in {checkGitRepo(Begin(stdin), w)} :
  IF c.err # "" THEN Ret(c.s, c.err) ELSE
  IF Len(args) > 0 THEN PurgeFile(c.s, fl, w, args[1]) ELSE
  \E sel \in {selectFile(c.s, fl, w)} :
  IF sel.err # "" THEN Ret(sel.s, sel.err) ELSE
  IF sel.id = "" THEN Ret(sel.s, "no file selected") ELSE
  PurgeFile(sel.s, fl, w, sel.id)

---------------------------------------------------------------------------
(* clean *)

\* the multipliers table of parseSize
Multiplier(suffix) ==
  CASE suffix = "B" -> 1
    [] suffix = "KB" -> 1024
    [] suffix = "MB" -> 1024 * 1024
    [] suffix = "GB" -> 1024 * 1024 * 1024

\* strconv.ParseFloat for plain decimals "<digits>[.<digits>]" with an
\* optional sign; num / den is the value.  Anything else is an error.
ParseFloat(v) ==
  LET signed == v # "" /\ Head(v) \in {"+", "-"}
      body == IF signed THEN Tail(v) ELSE v
      i == IndexOf(body, ".")
      whole == SubSeq(body, 1, i)
      frac == Drop(body, i + 1)
      sign == IF signed /\ Head(v) = "-" THEN 0 - 1 ELSE 1
  IN IF (whole = "" /\ frac = "") \/ ~AllIn(whole, Digits) \/ ~AllIn(frac, Digits)
     THEN [ok |-> FALSE, num |-> 0, den |-> 1]
     ELSE [ok |-> TRUE, num |-> sign * DecVal(whole \o frac, 0), den |-> Pow10(Len(frac))]

\* int64(x) of a float: truncation toward zero
Trunc(num, den) == IF num >= 0 THEN num \div den ELSE 0 - ((0 - num) \div den)

RECURSIVE parseSizeFrom(_, _)
\* the range loop of parseSize over the multipliers map, visited in `order`:
\* the first suffix that ends the text decides
parseSizeFrom(size, order) ==
  IF order = <<>>
  THEN LET b == Atoi(size) IN
       IF b.ok THEN [err |-> "", val |-> b.val] ELSE [err |-> "invalid size format", val |-> 0]
  ELSE IF HasSuffix(size, Head(order))
       THEN LET number == ParseFloat(SubSeq(size, 1, Len(size) - Len(Head(order)))) IN
            IF ~number.ok THEN [err |-> "invalid syntax", val |-> 0]
            ELSE [err |-> "", val |-> Trunc(number.num * Multiplier(Head(order)), number.den)]
       ELSE parseSizeFrom(size, Tail(order))

\* parseSize: Go visits a map in an unspecified order, given here by `order`
parseSize(size, order) == parseSizeFrom(ToUpper(size), order)

\* formatSize: bytes below 1024 as "<n> B", else one decimal and a unit
formatSize(bytes) ==
  LET exp == IF bytes < 1024 * 1024 THEN 0 ELSE IF bytes < 1024 * 1024 * 1024 THEN 1 ELSE 2
      div == IF exp = 0 THEN 1024 ELSE IF exp = 1 THEN 1024 * 1024 ELSE 1024 * 1024 * 1024
      q == (bytes * 10) \div div
      r == (bytes * 10) % div
      \* %.1f rounds to nearest, ties to even
      tenths == IF 2 * r > div \/ (2 * r = div /\ q % 2 = 1) THEN q + 1 ELSE q
  IN IF bytes < 1024 THEN Itoa(bytes) \o " B"
     ELSE Itoa(tenths \div 10) \o "." \o Itoa(tenths % 10) \o " " \o SubSeq("KMG", exp + 1, exp + 1) \o "B"

RECURSIVE ScanLargeFiles(_, _, _, _)
\* the scan loop of getLargeFiles; order[i] is the map order met by the
\* i-th line.  Returns the files kept, or the error of parseSize.
ScanLargeFiles(lines, fl, orders, i) ==
  IF i > Len(lines) THEN [err |-> "", files |-> <<>>]
  ELSE The({
    The({
      IF Len(parts) # 2 \/ ~size.ok THEN rest
      ELSE IF fl.threshold = ""
           THEN [rest EXCEPT !.files = <<[Path |-> parts[2], Size |-> size.val]>> \o @]
      ELSE The({ IF t.err # "" THEN [err |-> "invalid size threshold", files |-> <<>>]
                 ELSE IF size.val < t.val THEN rest
                 ELSE [rest EXCEPT !.files = <<[Path |-> parts[2], Size |-> size.val]>> \o @] :
                 t \in {parseSize(fl.threshold, orders[i])} }) :
      size \in {IF Len(parts) = 2 THEN Atoi(parts[1]) ELSE [ok |-> FALSE, val |-> 0]} }) :
    parts \in {SplitN(lines[i], " ", 2)},
    rest \in {ScanLargeFiles(lines, fl, orders, i + 1)} })

getLargeFiles(s, fl, w) ==
  LET s1 == Ex(s, "sh -c git rev-list | git cat-file", "") IN
  IF ~Ok(w, "sh -c git rev-list | git cat-file", "")
  THEN [s |-> s1, err |-> "failed to get git objects", files |-> <<>>]
  ELSE The({
    IF scan.err # "" THEN [s |-> s1, err |-> scan.err, files |-> <<>>]
    ELSE The({ [s |-> s1, err |-> "",
                files |-> IF Len(sorted) > fl.numFiles THEN SubSeq(sorted, 1, fl.numFiles)
                          ELSE sorted] :
               sorted \in {InsertionSort(scan.files, 2, "size")} }) :
    scan \in {ScanLargeFiles(w.out, fl, w.orders, 1)} })

Paths(files) == [i \in 1..Len(files) |-> files[i].Path]

LargeLabels(files) ==
  [i \in 1..Len(files) |-> files[i].Path \o " (" \o formatSize(files[i].Size) \o ")"]

selectLargeFileWithFzf(s, fl, w) ==
  The({
    IF g.err # "" THEN SelDone(g.s, "fzf", <<>>, "", "", g.err, FALSE) ELSE
    The({ IF ~f.ok THEN SelDone(f.s, "fzf", Paths(g.files), "", "", "", FALSE)
          ELSE IF Fields(TrimSpace(f.out)) = <<>>
               THEN SelDone(f.s, "fzf", Paths(g.files), "", "", "", TRUE)
          ELSE SelDone(f.s, "fzf", Paths(g.files), "", Fields(TrimSpace(f.out))[1], "", FALSE) :
          f \in {Fzf(g.s, w.picks, LargeLabels(g.files), FALSE)} }) :
    g \in {getLargeFiles(s, fl, w)} })

selectLargeFileWithList(s, fl, w) ==
  The({
    IF g.err # "" THEN SelDone(g.s, "list", <<>>, "", "", g.err, FALSE) ELSE
    The({ IF r.kind = "cancel" THEN SelDone(r.s, "list", Paths(g.files), r.tok, "", "", FALSE)
          ELSE IF r.kind = "invalid"
               THEN SelDone(r.s, "list", Paths(g.files), r.tok, "", "invalid selection", FALSE)
          ELSE SelDone(r.s, "list", Paths(g.files), r.tok, g.files[r.idx].Path, "", FALSE) :
          r \in {ReadIndex(Menu(Pr(g.s, "print", "Largest files in repository:"),
                                LargeLabels(g.files), 1),
                           Len(g.files), "Select file number (or press Enter to cancel): ")} }) :
    g \in {getLargeFiles(s, fl, w)} })

selectLargeFile(s, fl, w) ==
  IF ~fl.noFzf /\ w.fzf THEN selectLargeFileWithFzf(s, fl, w) ELSE selectLargeFileWithList(s, fl, w)

\* the part of runClean after the file is known
CleanFile(s, w, fileToPurge) ==
  \E q \in {confirmAction(s)} :
  IF ~q.yes THEN Ret(Pr(q.s, "print", "Operation cancelled"), "") ELSE
  \E k \in {Ex(q.s, "git filter-branch", fileToPurge)} :
  IF ~Ok(w, "git filter-branch", fileToPurge) THEN Ret(k, "failed to remove file from history") ELSE
  Ret(k, "")

runClean(args, fl, w, stdin) ==
  \E c \in {checkGitRepo(Begin(stdin), w)} :
  IF c.err # "" THEN Ret(c.s, c.err) ELSE
  IF Len(args) > 0 THEN CleanFile(c.s, w, args[1]) ELSE
  \E sel \in {selectLargeFile(Pr(c.s, "print", "Finding large files in git history..."), fl, w)} :
  IF sel.panic THEN Crash(sel.s) ELSE
  IF sel.err # "" THEN Ret(sel.s, sel.err) ELSE
  IF sel.id = "" THEN Ret(sel.s, "no file selected") ELSE
  CleanFile(sel.s, w, sel.id)

---------------------------------------------------------------------------
(* resolve *)

DiffU == "git diff --name-only --diff-filter=U"

\* hasConflicts: the listing succeeded and printed something
hasConflicts(s, w) ==
  [s |-> Ex(s, DiffU, ""), yes |-> Ok(w, DiffU, "") /\ Len(JoinLines(w.out)) > 0]

\* isFileConflicted: the file is one of the listed lines
isFileConflicted(s, w, file) ==
  [s |-> Ex(s, DiffU, ""),
   yes |-> Ok(w, DiffU, "") /\ file \in Range(SplitLines(TrimSpace(JoinLines(w.out))))]

selectConflictedFileWithFzf(s, w) ==
  LET l == Ex(s, DiffU, "") IN
  IF ~Ok(w, DiffU, "")
  THEN SelDone(l, "fzf", <<>>, "", "", "failed to list conflicted files", FALSE) ELSE
  LET f == Fzf(l, w.picks, w.out, FALSE)
  IN IF ~f.ok THEN SelDone(f.s, "fzf", w.out, "", "", "", FALSE)
     ELSE SelDone(f.s, "fzf", w.out, "", TrimSpace(f.out), "", FALSE)

selectConflictedFileWithList(s, w) ==
  LET l == Ex(s, DiffU, "") IN
  IF ~Ok(w, DiffU, "")
  THEN SelDone(l, "list", <<>>, "", "", "failed to list conflicted files", FALSE) ELSE
  LET files == SplitLines(TrimSpace(JoinLines(w.out)))
      r == ReadIndex(Menu(Pr(l, "print", "Conflicted files:"), files, 1), Len(files),
                     "Select file number (or press Enter to cancel): ")
  IN IF r.kind = "cancel" THEN SelDone(r.s, "list", files, r.tok, "", "", FALSE)
     ELSE IF r.kind = "invalid" THEN SelDone(r.s, "list", files, r.tok, "", "invalid selection", FALSE)
     ELSE SelDone(r.s, "list", files, r.tok, files[r.idx], "", FALSE)

selectConflictedFile(s, fl, w) ==
  IF ~fl.noFzf /\ w.fzf THEN selectConflictedFileWithFzf(s, w)
  ELSE selectConflictedFileWithList(s, w)

\* showConflictDiff: `git diff <file>`, through bat when it is installed
showConflictDiff(s, w, file) ==
  IF w.bat THEN Ex(s, "sh -c git diff | bat", file) ELSE Ex(s, "git diff", file)

\* getResolutionChoice: prompt, read one token, lower-case it
getResolutionChoice(s) ==
  LET sc == Scanln(s.in) IN
  [s |-> [Pr(s, "prompt", "Your choice [o/t]: ") EXCEPT !.in = sc.rest],
   choice |-> ToLower(sc.tok)]

\* the part of runResolve after the file is known
ResolveFile(s, w, file) ==
  \E g \in {getResolutionChoice(showConflictDiff(s, w, file))} :
  \E checkoutFlag \in {IF g.choice \in {"o", "ours"} THEN "--ours" ELSE "--theirs"} :
  IF g.choice \notin {"o", "ours", "t", "theirs"} THEN Ret(g.s, "invalid choice") ELSE
     \E k \in {Ex(g.s, "git checkout " \o checkoutFlag, file)} :
     IF ~Ok(w, "git checkout " \o checkoutFlag, file) THEN Ret(k, "failed to checkout version") ELSE
     \E a \in {Ex(k, "git add", file)} :
     IF ~Ok(w, "git add", file) THEN Ret(a, "failed to stage resolved file") ELSE
     Ret(a, "")

runResolve(args, fl, w, stdin) ==
  \E h \in {hasConflicts(Begin(stdin), w)} :
  IF ~h.yes THEN Ret(h.s, "no merge conflicts found") ELSE
  IF Len(args) > 0
  THEN \E f \in {isFileConflicted(h.s, w, args[1])} :
       IF ~f.yes THEN Ret(f.s, "specified file has no conflicts") ELSE ResolveFile(f.s, w, args[1])
  ELSE \E sel \in {selectConflictedFile(h.s, fl, w)} :
       IF sel.err # "" THEN Ret(sel.s, sel.err) ELSE
       IF sel.id = "" THEN Ret(sel.s, "no file selected") ELSE
       ResolveFile(sel.s, w, sel.id)

---------------------------------------------------------------------------
(* bisect *)

\* the first field of each line
FirstFields(lines) ==
  [i \in 1..Len(lines) |-> IF Fields(lines[i]) = <<>> THEN "" ELSE Fields(lines[i])[1]]

selectCommitWithFzfForBisect(s, w, picks) ==
  LET l == Ex(s, "git log --oneline", "--color=always") IN
  IF ~Ok(w, "git log --oneline", "--color=always")
  THEN SelDone(l, "fzf", <<>>, "", "", "failed to get git log", FALSE) ELSE
  LET f == Fzf(l, picks, w.out, FALSE)
      selected == TrimSpace(f.out)
  IN IF ~f.ok \/ selected = "" THEN SelDone(f.s, "fzf", FirstFields(w.out), "", "", "", FALSE)
     ELSE SelDone(f.s, "fzf", FirstFields(w.out), "", Fields(selected)[1], "", FALSE)

selectCommitWithListForBisect(s, w) ==
  LET l == Ex(s, "git log --oneline", "-n 20") IN
  IF ~Ok(w, "git log --oneline", "-n 20")
  THEN SelDone(l, "list", <<>>, "", "", "failed to get git log", FALSE) ELSE
  LET commits == SplitLines(TrimSpace(JoinLines(w.out)))
      r == ReadIndex(Menu(Pr(l, "print", "Recent commits:"), commits, 1), Len(commits),
                     "Select commit number (or press Enter to cancel): ")
  IN IF r.kind = "cancel" THEN SelDone(r.s, "list", FirstFields(commits), r.tok, "", "", FALSE)
     ELSE IF r.kind = "invalid"
          THEN SelDone(r.s, "list", FirstFields(commits), r.tok, "", "invalid selection", FALSE)
     ELSE IF Fields(commits[r.idx]) = <<>>
          THEN SelDone(r.s, "list", FirstFields(commits), r.tok, "", "", TRUE)
     ELSE SelDone(r.s, "list", FirstFields(commits), r.tok, Fields(commits[r.idx])[1], "", FALSE)

selectCommitForBisect(s, fl, w, picks) ==
  IF ~fl.noFzf /\ w.fzf THEN selectCommitWithFzfForBisect(s, w, picks)
  ELSE selectCommitWithListForBisect(s, w)

runBisect(args, fl, w, stdin) ==
  \E c \in {checkGitRepo(Begin(stdin), w)} :
  IF c.err # "" THEN Ret(c.s, c.err) ELSE
  \E b \in {Ex(Pr(c.s, "print", "Starting Git Bisect..."), "git bisect start", "")} :
  IF ~Ok(w, "git bisect start", "") THEN Ret(b, "failed to start git bisect") ELSE
  \E good \in {selectCommitForBisect(Pr(b, "print", "Select a known GOOD commit"), fl, w, w.picks)} :
  IF good.panic THEN Crash(good.s) ELSE
  IF good.err # "" THEN Ret(good.s, "failed to select good commit") ELSE
  IF good.id = "" THEN Ret(good.s, "no good commit selected") ELSE
  \E bad \in {selectCommitForBisect(Pr(good.s, "print", "Select a known BAD commit"), fl, w, w.picks2)} :
  IF bad.panic THEN Crash(bad.s) ELSE
  IF bad.err # "" THEN Ret(bad.s, "failed to select bad commit") ELSE
  IF bad.id = "" THEN Ret(bad.s, "no bad commit selected") ELSE
  \E g \in {Ex(bad.s, "git bisect good", good.id)} :
  IF ~Ok(w, "git bisect good", good.id) THEN Ret(g, "failed to mark good commit") ELSE
  \E k \in {Ex(g, "git bisect bad", bad.id)} :
  IF ~Ok(w, "git bisect bad", bad.id) THEN Ret(k, "failed to mark bad commit") ELSE
  Ret(Pr(k, "print", "Git bisect is now running!"), "")

---------------------------------------------------------------------------
(* cherry-pick *)

RECURSIVE JoinWith(_, _)
\* strings.Join
JoinWith(ls, sep) ==
  IF ls = <<>> THEN ""
  ELSE IF Len(ls) = 1 THEN ls[1]
  ELSE ls[1] \o sep \o JoinWith(Tail(ls), sep)

\* the outcome of the multi-commit selector: as SelDone, the commits joined
\* by spaces being the identifier recorded
SelMany(s, strategy, ids, typed, commits, err, panic) ==
  [s |-> SelDone(s, strategy, ids, typed, JoinWith(commits, " "), err, panic).s,
   commits |-> commits, err |-> err, panic |-> panic]

PrRef(prNum) == "pr-" \o Itoa(prNum)

selectCommitsWithFzfInteractive(s, w, prNum) ==
  LET l == Ex(s, "git log --oneline --reverse", PrRef(prNum)) IN
  IF ~Ok(w, "git log --oneline --reverse", PrRef(prNum))
  THEN SelMany(l, "fzf", <<>>, "", <<>>, "failed to get commit log", FALSE) ELSE
  LET f == Fzf(l, w.picks, w.out, TRUE)
      lines == SplitLines(TrimSpace(f.out))
  IN IF ~f.ok THEN SelMany(f.s, "fzf", FirstFields(w.out), "", <<>>, "", FALSE)
     ELSE IF \E i \in 1..Len(lines) : Fields(lines[i]) = <<>>
          THEN SelMany(f.s, "fzf", FirstFields(w.out), "", <<>>, "", TRUE)
     ELSE SelMany(f.s, "fzf", FirstFields(w.out), "", FirstFields(lines), "", FALSE)

selectCommitsWithList(s, w, prNum) ==
  LET l == Ex(Pr(s, "print", "Commits in PR #" \o Itoa(prNum) \o ":"),
              "git log --oneline --reverse", PrRef(prNum)) IN
  IF ~Ok(w, "git log --oneline --reverse", PrRef(prNum))
  THEN SelMany(l, "list", <<>>, "", <<>>, "failed to show commits", FALSE) ELSE
  LET sc == Scanln(l.in)
      p == [Pr(l, "prompt", "Enter commit hashes to cherry-pick (space-separated): ")
              EXCEPT !.in = sc.rest]
  IN SelMany(p, "list", FirstFields(w.out), sc.tok, Fields(sc.tok), "", FALSE)

selectCommitsWithFzf(s, fl, w, prNum) ==
  IF ~fl.noFzf /\ w.fzf THEN selectCommitsWithFzfInteractive(s, w, prNum)
  ELSE selectCommitsWithList(s, w, prNum)

RECURSIVE CherryPickLoop(_, _, _, _)
\* the loop of runCherryPick: commit[:8] is printed before each pick
CherryPickLoop(s, w, commits, i) ==
  IF i > Len(commits)
  THEN Ret(Pr(s, "print", "Successfully cherry-picked " \o Itoa(Len(commits)) \o " commit(s)!"), "")
  ELSE IF Len(commits[i]) < ShortHash THEN Crash(s)
  ELSE \E k \in {Ex(Pr(s, "print", "Cherry-picking commit " \o SubSeq(commits[i], 1, ShortHash)),
                   "git cherry-pick", commits[i])} :
       IF ~Ok(w, "git cherry-pick", commits[i]) THEN Ret(k, "failed to cherry-pick commit")
       ELSE CherryPickLoop(k, w, commits, i + 1)

runCherryPick(args, fl, w, stdin) ==
  \E c \in {checkGitRepo(Begin(stdin), w)} :
  IF c.err # "" THEN Ret(c.s, c.err) ELSE
  \E prNum \in {Atoi(args[1])} :
  IF ~prNum.ok THEN Ret(c.s, "invalid PR number: " \o args[1]) ELSE
  \E ref \in {"pull/" \o Itoa(prNum.val) \o "/head:" \o PrRef(prNum.val)} :
  \E f \in {Ex(Pr(c.s, "print", "Fetching PR #" \o Itoa(prNum.val)), "git fetch origin", ref)} :
  IF ~Ok(w, "git fetch origin", ref) THEN Ret(f, "failed to fetch PR") ELSE
  \E sel \in {selectCommitsWithFzf(f, fl, w, prNum.val)} :
  IF sel.panic THEN Crash(sel.s) ELSE
  IF sel.err # "" THEN Ret(sel.s, sel.err) ELSE
  IF Len(sel.commits) = 0 THEN Ret(sel.s, "no commits selected") ELSE
  CherryPickLoop(sel.s, w, sel.commits, 1)

---------------------------------------------------------------------------
(* worktree switch, worktree pull *)

RECURSIVE WorktreePaths(_)
\* the paths of the "worktree <path>" lines of the porcelain listing
WorktreePaths(lines) ==
  IF lines = <<>> THEN <<>>
  ELSE LET line == TrimSpace(Head(lines)) IN
       (IF HasPrefix(line, "worktree ") THEN <<TrimPrefix(line, "worktree ")>> ELSE <<>>)
       \o WorktreePaths(Tail(lines))

selectWorktreeWithFzf(s, w, worktrees) ==
  LET f == Fzf(s, w.picks, worktrees, FALSE) IN
  IF ~f.ok THEN SelDone(f.s, "fzf", worktrees, "", "", "", FALSE)
  ELSE SelDone(f.s, "fzf", worktrees, "", TrimSpace(f.out), "", FALSE)

selectWorktreeWithList(s, worktrees) ==
  LET r == ReadIndex(Menu(Pr(s, "print", "Available worktrees:"), worktrees, 1), Len(worktrees),
                     "Select worktree number (or press Enter to cancel): ")
  IN IF r.kind = "cancel" THEN SelDone(r.s, "list", worktrees, r.tok, "", "", FALSE)
     ELSE IF r.kind = "invalid" THEN SelDone(r.s, "list", worktrees, r.tok, "", "invalid selection", FALSE)
     ELSE SelDone(r.s, "list", worktrees, r.tok, worktrees[r.idx], "", FALSE)

selectWorktree(s, fl, w) ==
  LET l == Ex(s, "git worktree list --porcelain", "") IN
  IF ~Ok(w, "git worktree list --porcelain", "")
  THEN SelDone(l, "none", <<>>, "", "", "failed to list worktrees", FALSE) ELSE
  LET worktrees == WorktreePaths(SplitLines(JoinLines(w.out))) IN
  IF Len(worktrees) = 0 THEN SelDone(l, "none", <<>>, "", "", "no worktrees found", FALSE) ELSE
  IF ~fl.noFzf /\ w.fzf THEN selectWorktreeWithFzf(l, w, worktrees)
  ELSE selectWorktreeWithList(l, worktrees)

\* os.Chdir: changes the directory of the process, or fails
Chdir(s, dir) == Pr(s, "chdir", dir)

runWorktreeSwitch(args, fl, w, stdin) ==
  \E sel \in {selectWorktree(Begin(stdin), fl, w)} :
  IF sel.err # "" THEN Ret(sel.s, sel.err) ELSE
  IF sel.id = "" THEN Ret(sel.s, "no worktree selected") ELSE
  \E d \in {Chdir(Pr(sel.s, "print", "Switching to worktree: " \o sel.id), sel.id)} :
  IF ~Ok(w, "chdir", sel.id) THEN Ret(d, "failed to change directory") ELSE
  Ret(Pr(d, "print", "Now in: " \o sel.id), "")

runWorktreePull(args, fl, w, stdin) ==
  \E sel \in {selectWorktree(Begin(stdin), fl, w)} :
  IF sel.err # "" THEN Ret(sel.s, sel.err) ELSE
  IF sel.id = "" THEN Ret(sel.s, "no worktree selected") ELSE
  \E d \in {Chdir(Pr(sel.s, "print", "Pulling updates in worktree: " \o sel.id), sel.id)} :
  IF ~Ok(w, "chdir", sel.id) THEN Ret(d, "failed to change directory") ELSE
  \E p \in {Ex(d, "git pull", "")} :
  IF ~Ok(w, "git pull", "") THEN Ret(p, "failed to pull updates") ELSE
  Ret(Pr(p, "print", "Updates pulled successfully!"), "")

---------------------------------------------------------------------------
(* squash *)

\* getCommitMessages: `git log -n <num> --format=%B`
getCommitMessages(s, w, num) ==
  [s |-> Ex(s, "git log --format=%B -n", Itoa(num)),
   err |-> IF Ok(w, "git log --format=%B -n", Itoa(num)) THEN "" ELSE "failed to get commit messages",
   msgs |-> IF Ok(w, "git log --format=%B -n", Itoa(num)) THEN JoinLines(w.out) ELSE ""]

RECURSIVE FirstLines(_, _)
\* the loop of createDefaultMessage: trimmed non-empty lines, at most three
FirstLines(lines, acc) ==
  IF lines = <<>> \/ Len(acc) >= 3 THEN acc
  ELSE LET line == TrimSpace(Head(lines)) IN
       FirstLines(Tail(lines), IF line # "" THEN Append(acc, line) ELSE acc)

createDefaultMessage(messages) ==
  LET lines == SplitLines(TrimSpace(messages))
      firstLines == FirstLines(lines, <<>>)
  IN JoinWith(firstLines, "; ") \o (IF Len(firstLines) < Len(lines) THEN "..." ELSE "")

\* the prompt of CommitGenerator.GenerateCommitMessage
Prompt(diff) ==
  "Generate a conventional commit message for the following git diff:\n\n" \o diff
  \o "\n\nThe commit message should:\n"
  \o "1. Follow the format: <type>(<optional scope>): <description>\n"
  \o "2. Use one of these types: feat, fix, docs, style, refactor, test, chore\n"
  \o "3. Be concise but descriptive\n"
  \o "4. Focus on the \"what\" and \"why\" rather than the \"how\"\n"
  \o "5. Use imperative mood (\"add\" not \"added\")\n\n"
  \o "Return only the commit message without any additional text."

\* CommitGenerator.GenerateCommitMessage: one chat-completion request
\* ("http", with its prompt); a failed request is an error, otherwise the
\* trimmed content of Choices[0], an index that is out of range (a panic)
\* when the response w.choices holds no choice
GenerateCommitMessage(s, w, diff) ==
  [s |-> Pr(s, "http", Prompt(diff)),
   msg |-> IF w.ai = "ok" /\ w.choices # <<>> THEN TrimSpace(w.choices[1]) ELSE "",
   err |-> IF w.ai = "ok" THEN "" ELSE "failed to generate commit message",
   panic |-> w.ai = "ok" /\ w.choices = <<>>]

\* generateSquashMessage: the default message unless a key is configured and
\* the generator answers
generateSquashMessage(s, w, messages) ==
  IF w.ai = "nokey" THEN [s |-> s, msg |-> createDefaultMessage(messages), panic |-> FALSE]
  ELSE The({[s |-> g.s, msg |-> IF g.err # "" THEN createDefaultMessage(messages) ELSE g.msg,
             panic |-> g.panic] : g \in {GenerateCommitMessage(s, w, messages)}})

runSquash(args, fl, w, stdin) ==
  \E c \in {checkGitRepo(Begin(stdin), w)} :
  IF c.err # "" THEN Ret(c.s, c.err) ELSE
  \E numCommits \in {Atoi(args[1])} :
  IF ~numCommits.ok \/ numCommits.val < 2
  THEN Ret(c.s, "please provide a valid number of commits (minimum 2)") ELSE
  \E n \in {Itoa(numCommits.val)} :
  \E l \in {Ex(Pr(c.s, "print", "Last " \o n \o " commits to be squashed:\n"),
                "git log --oneline -n", n)} :
  IF ~Ok(w, "git log --oneline -n", n) THEN Ret(l, "failed to show commits") ELSE
  \E q \in {confirmAction(Pr(l, "print", "\nThis will squash the above " \o n \o " commits into one!"))} :
  IF ~q.yes THEN Ret(Pr(q.s, "print", "Operation cancelled"), "") ELSE
  \E g \in {IF fl.useAI \/ fl.message = "" THEN getCommitMessages(q.s, w, numCommits.val)
           ELSE [s |-> q.s, err |-> "", msgs |-> ""]} :
  IF g.err # "" THEN Ret(g.s, g.err) ELSE
  \E m \in {IF fl.message # "" THEN [s |-> g.s, msg |-> fl.message, panic |-> FALSE]
           ELSE IF fl.useAI THEN generateSquashMessage(g.s, w, g.msgs)
           ELSE [s |-> g.s, msg |-> "squash: " \o createDefaultMessage(g.msgs), panic |-> FALSE]} :
  IF m.panic THEN Crash(m.s) ELSE
  \E r \in {Ex(Pr(m.s, "print", "\nResetting last " \o n \o " commits..."),
                "git reset --soft", "HEAD~" \o n)} :
  IF ~Ok(w, "git reset --soft", "HEAD~" \o n) THEN Ret(r, "failed to reset commits") ELSE
  \E k \in {Ex(Pr(r, "print", "Creating new squashed commit..."), "git commit -m", m.msg)} :
  IF ~Ok(w, "git commit -m", m.msg) THEN Ret(k, "failed to create squashed commit") ELSE
  Ret(Pr(k, "print", "Successfully squashed " \o n \o " commits!"), "")

---------------------------------------------------------------------------
(* commit *)

\* getStagedChangesSummary: the output of `git diff --cached --stat`
getStagedChangesSummary(s, w) ==
  [s |-> Ex(s, "git diff --cached --stat", ""),
   err |-> IF Ok(w, "git diff --cached --stat", "") THEN "" ELSE "failed to get staged changes",
   out |-> IF Ok(w, "git diff --cached --stat", "") THEN JoinLines(w.out) ELSE ""]

\* getDetailedDiff: the output of `git diff --cached`
getDetailedDiff(s, w) ==
  [s |-> Ex(s, "git diff --cached", ""),
   err |-> IF Ok(w, "git diff --cached", "") THEN "" ELSE "failed to get detailed diff",
   out |-> IF Ok(w, "git diff --cached", "") THEN JoinLines(w.diff) ELSE ""]

\* the commit types offered by generateCommitMessage, by number
CommitTypes == <<"feat", "fix", "docs", "style", "refactor", "test", "chore">>

\* the menu printed with them
CommitTypeMenu ==
  <<"Available commit types:",
    "1. feat     - A new feature",
    "2. fix      - A bug fix",
    "3. docs     - Documentation only changes",
    "4. style    - Changes that don't affect the meaning of the code",
    "5. refactor - Code change that neither fixes a bug nor adds a feature",
    "6. test     - Adding missing tests or correcting existing tests",
    "7. chore    - Changes to the build process or auxiliary tools">>

\* the comment block generateCommitMessage appends to every message
Trailer(summary, ai) ==
  "\n\n# Changes to be committed:\n" \o "# " \o summary \o "\n"
  \o (IF ai THEN "\n# AI-generated commit message above\n" ELSE "")
  \o "# Lines starting with '#' will be ignored\n"

\* the manual branch of generateCommitMessage: the type given by --type, else
\* the menu, the prompt and one token read ("input"): a number 1..7 names a
\* type, anything else is taken as the type itself
ManualMessage(s, fl, summary) ==
  IF fl.commitType # ""
  THEN [s |-> s, msg |-> fl.commitType \o ": " \o Trailer(summary, FALSE), err |-> "", panic |-> FALSE]
  ELSE The({[s |-> [Pr(Pr(PrAll(s, CommitTypeMenu),
                          "prompt", "\nEnter commit type (or number): "),
                       "input", sc.tok) EXCEPT !.in = sc.rest],
             msg |-> (IF sc.tok \in {"1", "2", "3", "4", "5", "6", "7"}
                      THEN CommitTypes[DigitVal(sc.tok)] ELSE sc.tok)
                     \o ": " \o Trailer(summary, FALSE),
             err |-> "", panic |-> FALSE] : sc \in {Scanln(s.in)}})

\* a generator front end that asks the API before looking for the key
generateCommitMessageKeyless(s, fl, w, summary) ==
  IF ~fl.useAI THEN ManualMessage(s, fl, summary)
  ELSE The({IF d.err # "" THEN [s |-> d.s, msg |-> "", err |-> d.err, panic |-> FALSE]
            ELSE The({IF g.panic \/ g.err # "" THEN g
                      ELSE [g EXCEPT !.msg = @ \o Trailer(summary, TRUE)]
                      : g \in {GenerateCommitMessage(d.s, w, d.out)}})
            : d \in {getDetailedDiff(s, w)}})

\* generateCommitMessage: with --ai the detailed diff, the key, then the
\* generator's message; otherwise the manual message; the comment block in
\* both cases
generateCommitMessage(s, fl, w, summary) ==
  IF ~fl.useAI THEN ManualMessage(s, fl, summary)
  ELSE The({IF d.err # "" THEN [s |-> d.s, msg |-> "", err |-> d.err, panic |-> FALSE]
            ELSE IF w.ai = "nokey"
            THEN [s |-> d.s, msg |-> "", err |-> "OpenAI API key not found in config", panic |-> FALSE]
            ELSE The({IF g.panic \/ g.err # "" THEN g
                      ELSE [g EXCEPT !.msg = @ \o Trailer(summary, TRUE)]
                      : g \in {GenerateCommitMessage(d.s, w, d.out)}})
            : d \in {getDetailedDiff(s, w)}})

\* bufio.Scanner over the edited file: its lines, no empty last one
ScanLines(content) ==
  The({IF ls[Len(ls)] = "" THEN SubSeq(ls, 1, Len(ls) - 1) ELSE ls : ls \in {SplitLines(content)}})

\* editMessage: the message goes to a temporary file, the editor runs on it
\* ("editor", with the text it is given), and of what the user leaves in the
\* file (w.edit) the lines that are empty or comments are dropped
editMessage(s, w, message) ==
  IF "os.CreateTemp" \in w.fail
  THEN [s |-> s, msg |-> "", err |-> "failed to create temporary file"]
  ELSE IF ~Ok(w, "editor", "")
  THEN [s |-> Ex(s, "editor", message), msg |-> "", err |-> "failed to open editor"]
  ELSE [s |-> Ex(s, "editor", message),
        msg |-> JoinWith(SelectSeq(ScanLines(IF w.edit.keep THEN message ELSE w.edit.text),
                                   LAMBDA line : ~HasPrefix(TrimSpace(line), "#") /\ line # ""),
                         "\n"),
        err |-> ""]

\* makeCommit: `git commit -m <message>`
makeCommit(s, w, message) ==
  [s |-> Ex(s, "git commit -m", message),
   err |-> IF Ok(w, "git commit -m", message) THEN "" ELSE "exit status 1"]

runCommit(args, fl, w, stdin) ==
  \E c \in {checkGitRepo(Begin(stdin), w)} :
  IF c.err # "" THEN Ret(c.s, c.err) ELSE
  \E summary \in {getStagedChangesSummary(c.s, w)} :
  IF summary.err # "" THEN Ret(summary.s, summary.err) ELSE
  IF summary.out = ""
  THEN Ret(summary.s, "no staged changes found. Use 'git add' to stage changes") ELSE
  \E g \in {generateCommitMessage(summary.s, fl, w, summary.out)} :
  IF g.panic THEN Crash(g.s) ELSE
  IF g.err # "" THEN Ret(g.s, g.err) ELSE
  \E e \in {IF ~fl.skipEdit THEN editMessage(g.s, w, g.msg)
           ELSE [s |-> g.s, msg |-> g.msg, err |-> ""]} :
  IF e.err # "" THEN Ret(e.s, e.err) ELSE
  \E m \in {makeCommit(e.s, w, e.msg)} :
  Ret(m.s, m.err)

---------------------------------------------------------------------------
(* copy *)

\* strings.TrimSuffix
TrimSuffix(s, suffix) ==
  IF Len(suffix) <= Len(s) /\ SubSeq(s, Len(s) - Len(suffix) + 1, Len(s)) = suffix
  THEN SubSeq(s, 1, Len(s) - Len(suffix)) ELSE s

\* parseGitHubURL: the owner/repo path of an SSH or HTTPS GitHub URL
parseGitHubURL(url) ==
  IF HasPrefix(url, "git@github.com:")
  THEN [path |-> TrimSuffix(Drop(url, Len("git@github.com:")), ".git"), err |-> ""]
  ELSE IF HasPrefix(url, "https://github.com/")
  THEN [path |-> TrimSuffix(Drop(url, Len("https://github.com/")), ".git"), err |-> ""]
  ELSE [path |-> "",
        err |-> "invalid GitHub URL format. Use HTTPS (https://github.com/user/repo) or SSH (git@github.com:user/repo)"]

\* the directory os.MkdirTemp creates
WorkDir == "/tmp/githelper-copy-1"

\* a dry run that starts on the plan instead of printing it
performDryRunCloning(s, sourceURL, dest) ==
  Ex(Pr(s, "mkdir", WorkDir), "git clone --mirror", sourceURL \o " " \o WorkDir)

\* performDryRun: the plan, printed (repository settings at their defaults)
performDryRun(s, sourceURL, dest) ==
  PrAll(s,
     <<"Dry run - no changes will be made",
       "Would perform the following actions:\n",
       "1. Create temporary directory for cloning",
       "2. Clone " \o sourceURL \o " with --mirror flag",
       "3. Create new repository at " \o dest,
       "   - Private: true",
       "   - Description: ",
       "   - Issues enabled: true",
       "   - Wiki enabled: true",
       "4. Push mirror to destination",
       "5. Clean up temporary directory">>)

\* cloneMirror: `git clone --mirror <source> <dir>`
cloneMirror(s, w, sourceURL, dir) ==
  [s |-> Ex(s, "git clone --mirror", sourceURL \o " " \o dir),
   err |-> IF ~w.git THEN "failed to clone source repository"
           ELSE IF Ok(w, "git clone --mirror", sourceURL) THEN "" ELSE "git clone failed: "]

\* Client.CreateRepository: one request to GitHub ("github"), under the
\* owner only with --org; w.gh is the answer of the API
CreateRepository(s, w, name, owner, isOrg) ==
  [s |-> Pr(s, "github", "create " \o (IF isOrg THEN owner ELSE "") \o "/" \o name),
   err |-> CASE w.gh = "ok" -> ""
             [] w.gh = "401" -> "unauthorized: check your GitHub token"
             [] w.gh = "422" -> "repository already exists"
             [] OTHER -> "request failed"]

\* a creation step that sends the request whatever the token and --dest are
createDestinationRepoUnchecked(s, fl, w) ==
  CreateRepository(s, w, Drop(fl.destination, IndexOf(fl.destination, "/") + 1),
                   SubSeq(fl.destination, 1, IndexOf(fl.destination, "/")), fl.isOrg)

\* createDestinationRepo: the token, the owner/repo split of --dest, then
\* the request
createDestinationRepo(s, fl, w) ==
  IF ~w.token THEN [s |-> s, err |-> "GitHub token not found"]
  ELSE IF IndexOf(fl.destination, "/") = Len(fl.destination)
  THEN [s |-> s, err |-> "invalid destination format. Use 'owner/repo'"]
  ELSE CreateRepository(s, w, Drop(fl.destination, IndexOf(fl.destination, "/") + 1),
                        SubSeq(fl.destination, 1, IndexOf(fl.destination, "/")), fl.isOrg)

\* pushMirror: `git push --mirror <destination URL>` in the working directory
pushMirror(s, fl, w, dir) ==
  The({[s |-> Ex(s, "git push --mirror", destURL),
        err |-> IF ~w.git THEN "failed to push to destination"
                ELSE IF Ok(w, "git push --mirror", destURL) THEN "" ELSE "git push failed: "]
       : destURL \in {IF fl.ssh THEN "git@github.com:" \o fl.destination \o ".git"
                      ELSE "https://github.com/" \o fl.destination \o ".git"}})

\* runCopy; the deferred os.RemoveAll ("rmdir") runs on every return that
\* follows os.MkdirTemp ("mkdir").  The errors of CreateRepository are not
\* *gh.ErrorResponse values for 401 and 422, so the 422 branch of runCopy is
\* never taken.
runCopy(args, fl, w, stdin) ==
  \E sourceURL \in {args[1]} :
  \E u \in {parseGitHubURL(sourceURL)} :
  IF u.err # "" THEN Ret(Begin(stdin), u.err) ELSE
  IF fl.dryRun THEN Ret(performDryRun(Begin(stdin), sourceURL, fl.destination), "") ELSE
  \E p \in {Pr(Begin(stdin), "print",
               "Starting repository copy from " \o sourceURL \o " to " \o fl.destination)} :
  IF "os.MkdirTemp" \in w.fail THEN Ret(p, "failed to create working directory in /tmp") ELSE
  \E d \in {Pr(Pr(Pr(p, "mkdir", WorkDir), "print", "Working directory: " \o WorkDir),
               "print", "Cloning source repository...")} :
  \E c \in {cloneMirror(d, w, sourceURL, WorkDir)} :
  IF c.err # "" THEN Ret(Pr(c.s, "rmdir", WorkDir), c.err) ELSE
  \E r \in {createDestinationRepo(Pr(c.s, "print", "Creating destination repository..."), fl, w)} :
  IF r.err # "" THEN Ret(Pr(r.s, "rmdir", WorkDir), "failed to create destination repository") ELSE
  \E q \in {pushMirror(Pr(r.s, "print", "Pushing repository content..."), fl, w, WorkDir)} :
  IF q.err # "" THEN Ret(Pr(q.s, "rmdir", WorkDir), q.err) ELSE
  Ret(Pr(Pr(q.s, "print", "Successfully copied repository to " \o fl.destination), "rmdir", WorkDir), "")

---------------------------------------------------------------------------
(* remove *)

\* GetGitRoot: the output of `git rev-parse --show-toplevel`, its final
\* newline included (filepath.Clean leaves it)
GetGitRoot(s, w) ==
  [s |-> Ex(s, "git rev-parse --show-toplevel", ""),
   err |-> IF Ok(w, "git rev-parse --show-toplevel", "") /\ w.inRepo THEN "" ELSE "exit status 128",
   root |-> IF Ok(w, "git rev-parse --show-toplevel", "") /\ w.inRepo THEN w.root \o "\n" ELSE ""]

RECURSIVE CommonLen(_, _)
\* the number of leading path elements two paths share
CommonLen(a, b) ==
  IF a = <<>> \/ b = <<>> \/ Head(a) # Head(b) THEN 0 ELSE 1 + CommonLen(Tail(a), Tail(b))

\* filepath.Rel for clean absolute paths: ".." for every element of base
\* past the shared ones, then the rest of targ
Rel(base, targ) ==
  The({The({IF r = "" THEN "." ELSE r
            : r \in {JoinWith([i \in 1..(Len(b) - k) |-> ".."] \o SubSeq(t, k + 1, Len(t)), "/")}})
       : b \in {SplitN(base, "/", Len(base) + 1)}, t \in {SplitN(targ, "/", Len(targ) + 1)},
         k \in {CommonLen(SplitN(base, "/", Len(base) + 1), SplitN(targ, "/", Len(targ) + 1))}})

\* the handler of remove: the file must exist (w.exists); its path relative
\* to the repository root is printed in a warning and in the filter-branch
\* command the user is told to run.  The --force flag (fl.removeForce) is
\* not read.
runRemove(args, fl, w, stdin) ==
  \E filePath \in {args[1]} :
  IF ~w.exists THEN Ret(Begin(stdin), "file does not exist: " \o filePath) ELSE
  \E absPath \in {w.cwd \o "/" \o filePath} :
  \E g \in {GetGitRoot(Begin(stdin), w)} :
  IF g.err # "" THEN Ret(g.s, "failed to get git root: " \o g.err) ELSE
  \E relPath \in {Rel(g.root, absPath)} :
  Ret(PrAll(g.s,
        <<"WARNING: This will permanently remove '" \o relPath \o "' from git history.",
          "This operation cannot be undone and will rewrite git history.",
          "Make sure you understand the implications before proceeding.",
          "\nIf you're sure you want to proceed, run:",
          "git filter-branch --force --index-filter \"git rm --cached --ignore-unmatch " \o relPath
            \o "\" --prune-empty --tag-name-filter cat -- --all",
          "\nAfter the operation completes, run:",
          "rm -rf .git/refs/original/",
          "git reflog expire --expire=now --all",
          "git gc --prune=now --aggressive",
          "\nFinally, force push your changes:",
          "git push --force">>), "")

---------------------------------------------------------------------------
(* undo *)

\* confirmUndo: warning, prompt, consent only for "y" or "Y"
confirmUndo(s, fl) ==
  LET sc == Scanln(s.in) IN
  [s |-> [Pr(Pr(s, "prompt", "Are you sure you want to continue? [y/N]: "), "answer", sc.tok)
            EXCEPT !.in = sc.rest],
   yes |-> sc.tok = "y" \/ sc.tok = "Y"]

runUndo(args, fl, w, stdin) ==
  \E c \in {checkGitRepo(Begin(stdin), w)} :
  IF c.err # "" THEN Ret(c.s, c.err) ELSE
  \E q \in {confirmUndo(c.s, fl)} :
  IF ~q.yes THEN Ret(Pr(q.s, "print", "Undo operation cancelled"), "") ELSE
  \E resetType \in {IF fl.hardReset THEN "--hard" ELSE "--soft"} :
  \E target \in {"HEAD~" \o Itoa(fl.numCommits)} :
  \E r \in {Ex(q.s, "git reset " \o resetType, target)} :
  IF ~Ok(w, "git reset " \o resetType, target) THEN Ret(r, "failed to reset commits") ELSE
  \E p \in {Ex(r, "git push origin HEAD --force-with-lease", "")} :
  IF ~Ok(w, "git push origin HEAD --force-with-lease", "") THEN Ret(p, "failed to force push") ELSE
  Ret(Pr(p, "print", "Successfully undid last " \o Itoa(fl.numCommits) \o " commit(s)"), "")

---------------------------------------------------------------------------
(* prune *)

RECURSIVE MergedOf(_, _)
\* a filter that keeps every line that is not blank
MergedOfAll(lines, mainBranch) ==
  SelectSeq([i \in 1..Len(lines) |-> TrimSpace(lines[i])], LAMBDA branch : branch # "")

\* the filter of getMergedBranches: not blank, not current, not the main branch
MergedOf(lines, mainBranch) ==
  IF lines = <<>> THEN <<>>
  ELSE LET branch == TrimSpace(Head(lines)) IN
       (IF branch # "" /\ ~HasPrefix(branch, "*") /\ branch # mainBranch THEN <<branch>> ELSE <<>>)
       \o MergedOf(Tail(lines), mainBranch)

getMergedBranches(s, fl, w) ==
  [s |-> Ex(s, "git branch --merged", fl.mainBranch),
   err |-> IF Ok(w, "git branch --merged", fl.mainBranch) THEN "" ELSE "failed to list merged branches",
   branches |-> IF Ok(w, "git branch --merged", fl.mainBranch)
                THEN MergedOf(SplitLines(TrimSpace(JoinLines(w.out))), fl.mainBranch) ELSE <<>>]

RECURSIVE Bullets(_, _)
\* one "- <item>" line per item
Bullets(s, items) ==
  IF items = <<>> THEN s ELSE Bullets(Pr(s, "print", "- " \o Head(items)), Tail(items))

RECURSIVE DeleteBranches(_, _, _, _)
\* a deletion loop that gives up at the first failed deletion
DeleteBranchesStopping(s, w, branches, deleted) ==
  IF branches = <<>>
  THEN Ret(Pr(s, "print", "Successfully deleted " \o Itoa(deleted) \o " merged branch(es)!"), "")
  ELSE \E d \in {Ex(Pr(s, "print", "Deleting branch '" \o Head(branches) \o "'..."),
                    "git branch -d", Head(branches))} :
       IF ~Ok(w, "git branch -d", Head(branches))
       THEN Ret(Pr(d, "print", "Failed to delete branch '" \o Head(branches) \o "'"),
                "failed to delete branch")
       ELSE DeleteBranches(d, w, Tail(branches), deleted + 1)

\* the deletion loop of runPrune: a failed deletion is reported and skipped
DeleteBranches(s, w, branches, deleted) ==
  IF branches = <<>>
  THEN Ret(Pr(s, "print", "Successfully deleted " \o Itoa(deleted) \o " merged branch(es)!"), "")
  ELSE \E d \in {Ex(Pr(s, "print", "Deleting branch '" \o Head(branches) \o "'..."),
                    "git branch -d", Head(branches))} :
       IF ~Ok(w, "git branch -d", Head(branches))
       THEN DeleteBranches(Pr(d, "print", "Failed to delete branch '" \o Head(branches) \o "'"),
                           w, Tail(branches), deleted)
       ELSE DeleteBranches(d, w, Tail(branches), deleted + 1)

runPrune(args, fl, w, stdin) ==
  \E c \in {checkGitRepo(Begin(stdin), w)} :
  IF c.err # "" THEN Ret(c.s, c.err) ELSE
  \E f \in {Ex(Pr(c.s, "print", "Fetching and pruning remote branches..."), "git fetch -p", "")} :
  IF ~Ok(w, "git fetch -p", "") THEN Ret(f, "failed to fetch and prune") ELSE
  \E m \in {getMergedBranches(f, fl, w)} :
  IF m.err # "" THEN Ret(m.s, m.err) ELSE
  IF Len(m.branches) = 0 THEN Ret(Pr(m.s, "print", "No merged branches to clean up!"), "") ELSE
  \E b \in {Bullets(Pr(m.s, "print", "Merged branches to delete:"), m.branches)} :
  \E q \in {IF ~fl.force THEN confirmAction(b) ELSE [s |-> b, yes |-> TRUE]} :
  IF ~q.yes THEN Ret(Pr(q.s, "print", "Operation cancelled"), "") ELSE
  DeleteBranches(q.s, w, m.branches, 0)

---------------------------------------------------------------------------
(* prune-remotes *)

RECURSIVE RemoteMap(_, _)
\* the map filled by getRemotes from the "(fetch)" lines, as the sequence of
\* its entries in insertion order; a later line of a name replaces its url
RemoteMap(lines, acc) ==
  IF lines = <<>> THEN acc
  ELSE LET parts == Fields(Head(lines))
           hit == Len(parts) >= 2 /\ HasSuffix(Head(lines), "(fetch)")
           at == IF hit THEN {i \in 1..Len(acc) : acc[i].Name = parts[1]} ELSE {}
       IN RemoteMap(Tail(lines),
                    IF ~hit THEN acc
                    ELSE IF at = {} THEN Append(acc, [Name |-> parts[1], URL |-> parts[2]])
                    ELSE [i \in 1..Len(acc) |->
                            IF i \in at THEN [Name |-> parts[1], URL |-> parts[2]] ELSE acc[i]])

Reverse(q) == [i \in 1..Len(q) |-> q[Len(q) + 1 - i]]

\* getRemotes: `git remote -v`; the result follows Go's map iteration order,
\* which is unspecified (w.rev picks one of two orders)
getRemotes(s, w) ==
  LET entries == RemoteMap(SplitLines(TrimSpace(JoinLines(w.out))), <<>>) IN
  [s |-> Ex(s, "git remote -v", ""),
   err |-> IF Ok(w, "git remote -v", "") THEN "" ELSE "failed to list remotes",
   remotes |-> IF ~Ok(w, "git remote -v", "") THEN <<>>
               ELSE IF w.rev THEN Reverse(entries) ELSE entries]

\* checkRemote: `git ls-remote --exit-code <name>` exits zero
checkRemote(w, name) == Ok(w, "git ls-remote --exit-code", name)

RECURSIVE CheckRemotes(_, _)
\* the calls of the checking loop
CheckRemotes(s, remotes) ==
  IF remotes = <<>> THEN s
  ELSE CheckRemotes(Ex(s, "git ls-remote --exit-code", Head(remotes).Name), Tail(remotes))

\* a filter that takes every remote for unreachable
listEveryRemote(w, remotes) == remotes

\* listUnreachableRemotes: the remotes whose check failed, in order
listUnreachableRemotes(w, remotes) == SelectSeq(remotes, LAMBDA r : ~checkRemote(w, r.Name))

RemoteLabels(remotes) ==
  [i \in 1..Len(remotes) |-> remotes[i].Name \o " (" \o remotes[i].URL \o ")"]

RECURSIVE RemoveRemotes(_, _, _, _)
\* the removal loop of runPruneRemotes: a failed removal is reported and skipped
RemoveRemotes(s, w, remotes, removed) ==
  IF remotes = <<>>
  THEN Ret(Pr(s, "print", "Removed " \o Itoa(removed) \o " unreachable remote(s)"), "")
  ELSE \E d \in {Ex(s, "git remote remove", Head(remotes).Name)} :
       IF ~Ok(w, "git remote remove", Head(remotes).Name)
       THEN RemoveRemotes(Pr(d, "print", "Failed to remove remote '" \o Head(remotes).Name \o "'"),
                          w, Tail(remotes), removed)
       ELSE RemoveRemotes(Pr(d, "print", "Removed remote '" \o Head(remotes).Name \o "'"),
                          w, Tail(remotes), removed + 1)

runPruneRemotes(args, fl, w, stdin) ==
  \E c \in {checkGitRepo(Begin(stdin), w)} :
  IF c.err # "" THEN Ret(c.s, c.err) ELSE
  \E g \in {getRemotes(c.s, w)} :
  IF g.err # "" THEN Ret(g.s, g.err) ELSE
  IF Len(g.remotes) = 0 THEN Ret(Pr(g.s, "print", "No Git remotes configured."), "") ELSE
  \E k \in {CheckRemotes(Pr(g.s, "print", "Checking remotes..."), g.remotes)} :
  \E unreachable \in {listUnreachableRemotes(w, g.remotes)} :
  IF Len(unreachable) = 0 THEN Ret(Pr(k, "print", "All remotes are reachable!"), "") ELSE
  IF fl.dryRun
  THEN Ret(Bullets(Pr(k, "print", "The following remotes would be removed:"),
                   RemoteLabels(unreachable)), "") ELSE
  \E q \in {IF ~fl.forceMode
           THEN confirmAction(Bullets(Pr(k, "print", "The following remotes will be removed:"),
                                      RemoteLabels(unreachable)))
           ELSE [s |-> k, yes |-> TRUE]} :
  IF ~q.yes THEN Ret(Pr(q.s, "print", "Operation cancelled"), "") ELSE
  RemoveRemotes(q.s, w, unreachable, 0)

---------------------------------------------------------------------------
(* refresh *)

\* fixCRLFIssues: autocrlf off, then renormalize
fixCRLFIssues(s, w) ==
  LET c == Ex(s, "git config core.autocrlf false", "") IN
  IF ~Ok(w, "git config core.autocrlf false", "")
  THEN [s |-> c, err |-> "failed to configure line endings"] ELSE
  LET n == Ex(c, "git add --renormalize .", "") IN
  [s |-> n, err |-> IF Ok(w, "git add --renormalize .", "") THEN "" ELSE "failed to renormalize files"]

\* the part of runRefresh after the status check
RefreshIndex(s, args, fl, w) ==
  \E x \in {IF fl.fixLineEndings THEN fixCRLFIssues(Pr(s, "print", "Fixing line endings..."), w)
           ELSE [s |-> s, err |-> ""]} :
  IF x.err # "" THEN Ret(x.s, x.err) ELSE
  \E paths \in {IF Len(args) > 0 THEN JoinWith(args, " ") ELSE "."} :
  \E k \in {Ex(Pr(x.s, "print", "Refreshing Git index..."), "git checkout --", paths)} :
  IF ~Ok(w, "git checkout --", paths) THEN Ret(k, "failed to refresh index") ELSE
  \E u \in {IF fl.cleanUntracked THEN Ex(Pr(k, "print", "Removing untracked files..."), "git clean -fd", "")
           ELSE k} :
  IF fl.cleanUntracked /\ ~Ok(w, "git clean -fd", "") THEN Ret(u, "failed to clean untracked files") ELSE
  \E r \in {Ex(u, "git reset --hard", "HEAD")} :
  IF ~Ok(w, "git reset --hard", "HEAD") THEN Ret(r, "failed to reset to HEAD") ELSE
  Ret(Pr(r, "print", "Git index refreshed successfully!"), "")

runRefresh(args, fl, w, stdin) ==
  \E c \in {checkGitRepo(Begin(stdin), w)} :
  IF c.err # "" THEN Ret(c.s, c.err) ELSE
  IF ~fl.cleanUntracked THEN RefreshIndex(c.s, args, fl, w) ELSE
  \E st \in {Ex(c.s, "git status --porcelain", "")} :
  IF ~Ok(w, "git status --porcelain", "") THEN Ret(st, "failed to check git status") ELSE
  IF ~w.dirty THEN RefreshIndex(st, args, fl, w) ELSE
  \E q \in {confirmAction(Pr(st, "print", "WARNING: This will remove all untracked files and directories!"))} :
  IF ~q.yes THEN Ret(Pr(q.s, "print", "Operation cancelled"), "") ELSE
  RefreshIndex(q.s, args, fl, w)

---------------------------------------------------------------------------
(* sync *)

\* getCurrentTimestamp: the output of `date`, or "unknown"
getCurrentTimestamp(s, w) ==
  [s |-> Ex(s, "date", ""), stamp |-> IF Ok(w, "date", "") THEN "2024-01-02 15:04:05\n" ELSE "unknown"]

\* a stash step that does not report the failure of `git stash save`
stashChangesUnchecked(s, w) ==
  [s |-> Ex(getCurrentTimestamp(s, w).s, "git stash save --include-untracked", ""), err |-> ""]

\* stashChanges: `git stash save --include-untracked <message>`
stashChanges(s, w) ==
  LET t == getCurrentTimestamp(s, w) IN
  [s |-> Ex(t.s, "git stash save --include-untracked", ""),
   err |-> IF Ok(w, "git stash save --include-untracked", "") THEN "" ELSE "exit status 1"]

\* popStash: `git stash pop`
popStash(s, w) ==
  [s |-> Ex(Pr(s, "print", "Restoring your local changes..."), "git stash pop", ""),
   err |-> IF Ok(w, "git stash pop", "") THEN "" ELSE "exit status 1"]

\* the deferred function of runSync, run when runSync returns
SyncDeferred(s, w) ==
  LET p == popStash(s, w) IN
  IF p.err # "" THEN Pr(p.s, "print", "Your changes are still in the stash. Use 'git stash pop' to restore them.")
  ELSE p.s

\* runSync from the fetch on; the outcome before the deferred call
SyncRemote(s, fl, w, branch, hasChanges) ==
  LET f == Ex(Pr(s, "print", "Fetching remote changes..."), "git fetch origin", "") IN
  IF ~Ok(w, "git fetch origin", "") THEN [s |-> f, err |-> "failed to fetch remote changes"] ELSE
  LET p == Ex(Pr(f, "print", "Pulling remote changes with rebase..."), "git pull --rebase origin", branch) IN
  IF ~Ok(w, "git pull --rebase origin", branch)
  THEN [s |-> IF hasChanges /\ ~fl.noStash
              THEN Pr(p, "print", "Rebase failed. Your original changes are safe in the stash.")
              ELSE p,
        err |-> "failed to pull with rebase"]
  ELSE [s |-> Pr(p, "print", "Successfully synchronized with remote!"), err |-> ""]

runSync(args, fl, w, stdin) ==
  \E c \in {checkGitRepo(Begin(stdin), w)} :
  IF c.err # "" THEN Ret(c.s, c.err) ELSE
  \E branch \in {IF Len(args) > 0 THEN args[1] ELSE "HEAD"} :
  \E h \in {hasUncommittedChanges(c.s, w)} :
  IF h.err # "" THEN Ret(h.s, h.err) ELSE
  IF h.changes /\ ~fl.noStash
  THEN \E st \in {stashChanges(Pr(h.s, "print", "Stashing local changes..."), w)} :
       IF st.err # "" THEN Ret(st.s, st.err) ELSE
       \E r \in {SyncRemote(st.s, fl, w, branch, h.changes)} :
       Ret(SyncDeferred(r.s, w), r.err)
  ELSE IF h.changes /\ ~fl.force
  THEN Ret(h.s, "you have uncommitted changes. Use --force to proceed anyway, or commit/stash your changes")
  ELSE \E r \in {SyncRemote(IF h.changes
                           THEN Pr(h.s, "print", "Proceeding with uncommitted changes (forced)")
                           ELSE h.s, fl, w, branch, h.changes)} :
       Ret(r.s, r.err)

---------------------------------------------------------------------------
(* rescue *)

\* isDetachedHead: `git symbolic-ref -q HEAD` fails on a detached HEAD; the
\* failure counts only if `git rev-parse --verify HEAD` then succeeds
isDetachedHead(s, w) ==
  LET r == Ex(s, "git symbolic-ref -q HEAD", "") IN
  IF ~w.detached THEN [s |-> r, err |-> "", detached |-> FALSE] ELSE
  LET v == Ex(r, "git rev-parse --verify HEAD", "") IN
  IF Ok(w, "git rev-parse --verify HEAD", "") THEN [s |-> v, err |-> "", detached |-> TRUE]
  ELSE [s |-> v, err |-> "failed to check HEAD state", detached |-> FALSE]

RECURSIVE TrimPrefixes(_, _)
\* strings.TrimPrefix with each prefix in turn
TrimPrefixes(msg, prefixes) ==
  IF prefixes = <<>> THEN msg ELSE TrimPrefixes(TrimPrefix(msg, Head(prefixes)), Tail(prefixes))

RECURSIVE BranchChars(_)
\* blanks to dashes, then only a-z, 0-9 and "-" are kept
BranchChars(msg) ==
  IF msg = "" THEN ""
  ELSE LET c == IF Head(msg) = " " THEN "-" ELSE SubSeq(msg, 1, 1) IN
       (IF IndexOf(Lower \o "0123456789-", Head(c)) < Len(Lower) + 11 THEN c ELSE "")
       \o BranchChars(Tail(msg))

\* the longest suggestion kept
MaxBranchLen == 30

generateBranchName(commitMsg) ==
  LET first == SplitLines(TrimSpace(commitMsg))[1]
      cut == TrimPrefixes(first, <<"feat:", "fix:", "chore:", "docs:", "style:", "refactor:", "test:">>)
      clean == BranchChars(ToLower(TrimSpace(cut)))
      msg == IF Len(clean) > MaxBranchLen THEN SubSeq(clean, 1, MaxBranchLen) ELSE clean
  IN IF Len(msg) = 0 \/ Head(msg) \in Digits THEN "branch-" \o msg ELSE msg

getBranchNameInteractive(s, w) ==
  LET m == Ex(s, "git log -1 --pretty=%B", "")
      msg == IF Ok(w, "git log -1 --pretty=%B", "") THEN JoinLines(w.out) ELSE ""
      suggestion == generateBranchName(msg)
      p == Pr(Pr(m, "print", "Suggested branch name: " \o suggestion), "prompt",
              "Enter branch name (or press Enter to use suggestion): ")
      sc == Scanln(p.in)
  IN [s |-> [p EXCEPT !.in = sc.rest], name |-> IF sc.tok = "" THEN suggestion ELSE sc.tok]

runRescue(args, fl, w, stdin) ==
  \E c \in {checkGitRepo(Begin(stdin), w)} :
  IF c.err # "" THEN Ret(c.s, c.err) ELSE
  \E d \in {isDetachedHead(c.s, w)} :
  IF d.err # "" THEN Ret(d.s, d.err) ELSE
  IF ~d.detached
  THEN Ret(d.s, "not in detached HEAD state. This command is only needed when HEAD is detached") ELSE
  \E one \in {Ex(Pr(d.s, "print", "Current HEAD position:"), "git log --oneline -n", "1")} :
  IF ~Ok(w, "git log --oneline -n", "1") THEN Ret(one, "failed to show current commit") ELSE
  \E five \in {Ex(Pr(one, "print", "Recent commits:"), "git log --oneline -n", "5")} :
  IF ~Ok(w, "git log --oneline -n", "5") THEN Ret(five, "failed to show recent commits") ELSE
  \E b \in {IF Len(args) > 0 THEN [s |-> five, name |-> args[1]] ELSE getBranchNameInteractive(five, w)} :
  IF b.name = "" THEN Ret(b.s, "no branch name provided") ELSE
  \E k \in {Ex(b.s, "git checkout -b", b.name)} :
  IF ~Ok(w, "git checkout -b", b.name) THEN Ret(k, "failed to create branch") ELSE
  Ret(Pr(k, "print", "Successfully created branch '" \o b.name \o "'!"), "")

---------------------------------------------------------------------------
(* Inputs of a run *)

\* the package-level flag variables at their defaults
NoFlags ==
  [noFzf |-> FALSE, showAll |-> FALSE, sortBy |-> "date", forcePush |-> FALSE,
   numFiles |-> 10, threshold |-> "", message |-> "", useAI |-> FALSE,
   hardReset |-> FALSE, numCommits |-> 1, mainBranch |-> "main", force |-> FALSE,
   forceMode |-> FALSE, dryRun |-> FALSE, fixLineEndings |-> FALSE,
   cleanUntracked |-> FALSE, noStash |-> FALSE, skipEdit |-> FALSE, commitType |-> "",
   removeForce |-> FALSE, destination |-> "", isOrg |-> FALSE, ssh |-> TRUE]

\* the choices of a chat-completion response
Responses ==
  {<<>>, <<"feat: squashed by generator">>, <<"  fix: trim me\n">>, <<"docs: first", "docs: second">>}

\* the world a run meets: whether git is on the search path, whether the
\* directory is a repository, whether fzf
\* is on the search path and which lines the user picks in it (none: Escape),
\* whether `git status --porcelain` prints anything, the lines printed by the
\* handler's listing command, and the commands that exit non-zero
World0 ==
  [git |-> TRUE, inRepo |-> TRUE, fzf |-> FALSE, bat |-> FALSE, picks |-> <<>>, picks2 |-> <<>>,
   dirty |-> FALSE, detached |-> FALSE, out |-> <<>>, fail |-> {}, orders |-> <<>>,
   rev |-> FALSE, ai |-> "nokey", choices |-> <<>>, diff |-> <<>>,
   edit |-> [keep |-> TRUE, text |-> ""], token |-> TRUE, gh |-> "ok",
   root |-> "/repo", cwd |-> "/repo", exists |-> TRUE]


RECURSIVE Listings(_, _)
\* the listings of at most n distinct lines of pool, in any order
Listings(pool, n) ==
  IF n = 0 THEN {<<>>}
  ELSE LET r == Listings(pool, n - 1)
       IN r \cup {Append(qx[1], qx[2]) :
                     qx \in {y \in r \X pool : Len(y[1]) = n - 1 /\ y[2] \notin Range(y[1])}}

\* what the user does in a single-choice fzf: Escape or pick one line
Picks == {<<>>} \cup {<<i>> : i \in 1..MaxItems}

\* at most one command of the run fails
FailSets(cmds) == {{}} \cup {{c} : c \in cmds}

\* lines typed at a selection prompt, and at a confirmation prompt
SelLines == {"", "0", "1", "2", "3", "9", "2x", "x"}

ConfLines == {"", "y", "Y", "n", "yes"}

\* standard input holding the given lines, or only the first k of them
\* followed by end of input
Stdins(lineSets) ==
  LET n == Len(lineSets)
      full == IF n = 1 THEN {<<a>> : a \in lineSets[1]}
              ELSE {<<a, b>> : a \in lineSets[1], b \in lineSets[2]}
  IN {JoinLines(SubSeq(ls, 1, k)) : ls \in full, k \in 0..n}

\* lines typed when asked for a branch name
NameLines == {"", "fix"}

\* what the user does in fzf when it is on the search path
PicksIf(fzf) == IF fzf THEN Picks ELSE {<<>>}

\* `git reflog`: abbreviated hash, selector, subject
ReflogLines ==
  {"a1b2c3d HEAD@{0}: commit: fix",
   "a1b2c3d4 HEAD@{1}: checkout: moving",
   "a1b2c3d4e HEAD@{2}: reset: moving"}

\* `git reflog --pretty=%H %gd %gs`: full hash, selector, subject
PrettyLines ==
  {"1111111111222222222233333333334444444444 HEAD@{0} commit: fix",
   "5555555555666666666677777777778888888888 HEAD@{1} reset: moving to HEAD~1",
   "9999999999000000000011111111112222222222 HEAD@{2} "}

\* a reflog of one entry more than the selectors' menus show
LongReflog ==
  [i \in 1..(ShowLimit + 1) |-> "a1b2c3d4e HEAD@{" \o Itoa(i - 1) \o "}: commit: fix"]

LongPretty ==
  [i \in 1..(ShowLimit + 1) |->
     "1111111111222222222233333333334444444444 HEAD@{" \o Itoa(i - 1) \o "} commit: fix"]

\* lines typed at the selection prompt of a listing `out`: around the end of
\* the menu when the listing is a long one
SelLinesFor(out) == IF Len(out) > ShowLimit THEN {"", "20", "21", "22"} ELSE SelLines

\* `git ls-files`
FileLines == {"a.txt", "b/secret.env", "c.go"}

BranchLines ==
  {"main a1 2024-01-02 15:04:05 +0000 init",
   "dev b2 2024-02-03 10:00:00 +0000 wip",
   "feature-x c3 2023-12-31 09:00:00 +0000 add x"}

\* S when the input matters, else the one default d
Only(b, S, d) == IF b THEN S ELSE {d}

\* the blob listing of the clean pipeline: size, path
BlobLines == {"2048 big.bin", "10 small.txt", "5000 my video.mp4", "junk"}

\* two of the orders in which Go may visit the multipliers map
SuffixOrders == {<<"B", "KB", "MB", "GB">>, <<"GB", "MB", "KB", "B">>}

\* values of --min
Thresholds == {"", "1kb", "100MB", "3000"}

\* lines typed when asked for ours or theirs
ChoiceLines == {"", "o", "T", "theirs", "x"}

\* `git log --oneline`: abbreviated hash, subject
LogLines == {"a1b2c3d fix bug", "b2c3d4e5f add x", "c3d4e5f6 wip"}

\* what the user does in a multi-choice fzf
MultiPicks == Picks \cup {<<1, 2>>}

\* lines typed when asked for commit hashes
HashLines == {"", "a1b2c3d", "b2c3d4e5f", "b2c3d4e5f c3d4e5f6"}

\* `git worktree list --porcelain`
WorktreeLines == {"worktree /repo", "worktree /wt/feature", "HEAD a1b2c3d4", "branch refs/heads/main"}

\* `git log --format=%B`: commit messages with their blank separators
MessageLines == {"feat: Add Login", "fix bug #12", "", "2nd try"}

\* `git branch --merged`
MergedLines == {"* dev", "  main", "  feature-a", "  old-fix"}

\* `git remote -v`
RemoteLines ==
  {"origin git@host:o.git (fetch)", "origin git@host:o.git (push)",
   "fork https://host/f.git (fetch)", "old https://host/old.git (fetch)"}

---------------------------------------------------------------------------
(* The state machine: one process run per step *)

\* a process runs one subcommand once: cobra dispatches to its handler (which
\* ends in Ret or Crash), main turns the returned error into the exit status,
\* and the process is gone
Do(cmd, args, fl, w, stdin) ==
  inp' = [cmd |-> cmd, args |-> args, fl |-> fl, w |-> w, stdin |-> stdin]

Init ==
  /\ inp = [cmd |-> "", args |-> <<>>, fl |-> NoFlags, w |-> World0, stdin |-> ""]
  /\ res = Finish([trace |-> <<>>, rest |-> "", sels |-> <<>>, err |-> "", panic |-> FALSE])

\* no process has run yet
Fresh == inp.cmd = ""

RunSwitch ==
  /\ Fresh
  /\ \E inRepo \in BOOLEAN, fzf \in BOOLEAN, dirty \in BOOLEAN, showAll \in BOOLEAN,
     sortBy \in {"date", "name"}, out \in Listings(BranchLines, MaxItems),
     fail \in FailSets({"git status --porcelain", "git branch --format", "git checkout"}) :
     \E picks \in PicksIf(fzf), stdin \in Stdins(<<SelLines>>) :
      \E fl \in {[NoFlags EXCEPT !.showAll = showAll, !.sortBy = sortBy]},
         w \in {[World0 EXCEPT !.inRepo = inRepo, !.fzf = fzf, !.picks = picks,
                              !.dirty = dirty, !.out = out, !.fail = fail]} :
        Do("switch", <<>>, fl, w, stdin) /\ runSwitch(<<>>, fl, w, stdin)

RunRestore ==
  /\ Fresh
  /\ \E inRepo \in BOOLEAN, noFzf \in BOOLEAN, fzf \in BOOLEAN,
        out \in Listings(ReflogLines, MaxItems) \cup {LongReflog},
        fail \in FailSets({"git reflog", "git checkout -b"}) :
      \E picks \in PicksIf(fzf),
         stdin \in Stdins(IF ~noFzf /\ fzf THEN <<NameLines>>
                          ELSE <<SelLinesFor(out), NameLines>>) :
        \E fl \in {[NoFlags EXCEPT !.noFzf = noFzf]},
           w \in {[World0 EXCEPT !.inRepo = inRepo, !.fzf = fzf, !.picks = picks,
                                !.out = out, !.fail = fail]} :
          Do("restore", <<>>, fl, w, stdin) /\ runRestore(<<>>, fl, w, stdin)

RunRecover ==
  /\ Fresh
  /\ \E inRepo \in BOOLEAN, fzf \in BOOLEAN, dirty \in BOOLEAN,
        out \in Listings(PrettyLines, MaxItems) \cup {LongPretty},
        fail \in FailSets({"git status --porcelain", "git reflog --pretty", "git reset --hard"}) :
      \E picks \in PicksIf(fzf),
         stdin \in Stdins(IF fzf THEN <<ConfLines>> ELSE <<SelLinesFor(out), ConfLines>>) :
        \E w \in {[World0 EXCEPT !.inRepo = inRepo, !.fzf = fzf, !.picks = picks,
                                !.dirty = dirty, !.out = out, !.fail = fail]} :
          Do("recover", <<>>, NoFlags, w, stdin) /\ runRecover(<<>>, NoFlags, w, stdin)

RunPurge ==
  /\ Fresh
  /\ \E inRepo \in BOOLEAN, fzf \in BOOLEAN, forcePush \in BOOLEAN,
        args \in {<<>>, <<"a.txt">>}, out \in Listings(FileLines, MaxItems),
        fail \in FailSets({"git ls-files", "git filter-branch", "git push origin --force --all"}) :
      \E picks \in PicksIf(fzf),
         stdin \in Stdins(IF fzf \/ args # <<>> THEN <<ConfLines>> ELSE <<SelLines, ConfLines>>) :
        \E fl \in {[NoFlags EXCEPT !.forcePush = forcePush]},
           w \in {[World0 EXCEPT !.inRepo = inRepo, !.fzf = fzf, !.picks = picks,
                                !.out = out, !.fail = fail]} :
          Do("purge", args, fl, w, stdin) /\ runPurge(args, fl, w, stdin)

RunClean ==
  /\ Fresh
  /\ \E inRepo \in BOOLEAN :
     \E args \in Only(inRepo, {<<>>, <<"big.bin">>}, <<>>) :
     \E list \in {inRepo /\ args = <<>>} :
     \E fzf \in Only(list, BOOLEAN, FALSE), out \in Only(list, Listings(BlobLines, MaxItems), <<>>),
        threshold \in Only(list, Thresholds, ""),
        fail \in Only(inRepo, FailSets({"sh -c git rev-list | git cat-file", "git filter-branch"}), {}) :
     \E numFiles \in Only(list /\ threshold = "", {10, 1}, 10),
        orders \in Only(threshold \in {"1kb", "100MB"}, [1..MaxItems -> SuffixOrders],
                        [i \in 1..MaxItems |-> <<"B", "KB", "MB", "GB">>]),
        picks \in PicksIf(fzf),
        stdin \in Only(inRepo, Stdins(IF list /\ ~fzf THEN <<SelLines, ConfLines>> ELSE <<ConfLines>>), "") :
       \E fl \in {[NoFlags EXCEPT !.threshold = threshold, !.numFiles = numFiles]},
          w \in {[World0 EXCEPT !.inRepo = inRepo, !.fzf = fzf, !.picks = picks, !.out = out,
                               !.fail = fail, !.orders = orders]} :
         Do("clean", args, fl, w, stdin) /\ runClean(args, fl, w, stdin)

RunResolve ==
  /\ Fresh
  /\ \E git \in BOOLEAN :
     \E args \in {<<>>, <<"a.txt">>}, fzf \in Only(git, BOOLEAN, FALSE), bat \in Only(git, BOOLEAN, FALSE),
        out \in Only(git, Listings(FileLines, MaxItems), <<>>),
        fail \in Only(git, FailSets({DiffU, "git checkout --ours", "git checkout --theirs", "git add"}), {}) :
     \E picks \in PicksIf(fzf /\ args = <<>>),
        stdin \in Only(git, Stdins(IF fzf \/ args # <<>> THEN <<ChoiceLines>>
                                   ELSE <<SelLines, ChoiceLines>>), "") :
       \E w \in {[World0 EXCEPT !.git = git, !.fzf = fzf, !.bat = bat, !.picks = picks,
                               !.out = out, !.fail = fail]} :
         Do("resolve", args, NoFlags, w, stdin) /\ runResolve(args, NoFlags, w, stdin)

RunBisect ==
  /\ Fresh
  /\ \E inRepo \in BOOLEAN :
     \E fzf \in Only(inRepo, BOOLEAN, FALSE),
        out \in Only(inRepo, Listings(LogLines, MaxItems) \ {<<>>}, <<>>),
        fail \in Only(inRepo, FailSets({"git bisect start", "git log --oneline", "git bisect good",
                                        "git bisect bad"}), {}) :
     \E picks \in PicksIf(fzf), picks2 \in PicksIf(fzf),
        stdin \in Only(inRepo /\ ~fzf, Stdins(<<SelLines, SelLines>>), "") :
       \E w \in {[World0 EXCEPT !.inRepo = inRepo, !.fzf = fzf, !.picks = picks, !.picks2 = picks2,
                               !.out = out, !.fail = fail]} :
         Do("bisect", <<>>, NoFlags, w, stdin) /\ runBisect(<<>>, NoFlags, w, stdin)

RunCherryPick ==
  /\ Fresh
  /\ \E inRepo \in BOOLEAN :
     \E args \in Only(inRepo, {<<"12">>, <<"abc">>}, <<"12">>) :
     \E live \in {inRepo /\ args = <<"12">>} :
     \E fzf \in Only(live, BOOLEAN, FALSE), out \in Only(live, Listings(LogLines, MaxItems), <<>>),
        fail \in Only(live, FailSets({"git fetch origin", "git log --oneline --reverse",
                                      "git cherry-pick", "git cherry-pick c3d4e5f6"}), {}) :
     \E picks \in Only(fzf, MultiPicks, <<>>), stdin \in Only(live /\ ~fzf, Stdins(<<HashLines>>), "") :
       \E w \in {[World0 EXCEPT !.inRepo = inRepo, !.fzf = fzf, !.picks = picks, !.out = out,
                               !.fail = fail]} :
         Do("cherry-pick", args, NoFlags, w, stdin) /\ runCherryPick(args, NoFlags, w, stdin)

RunWorktreeSwitch ==
  /\ Fresh
  /\ \E fzf \in BOOLEAN, out \in Listings(WorktreeLines, MaxItems),
        fail \in FailSets({"git worktree list --porcelain", "chdir"}) :
     \E picks \in PicksIf(fzf), stdin \in Only(~fzf, Stdins(<<SelLines>>), "") :
       \E w \in {[World0 EXCEPT !.fzf = fzf, !.picks = picks, !.out = out, !.fail = fail]} :
         Do("worktree switch", <<>>, NoFlags, w, stdin) /\ runWorktreeSwitch(<<>>, NoFlags, w, stdin)

RunWorktreePull ==
  /\ Fresh
  /\ \E fzf \in BOOLEAN, out \in Listings(WorktreeLines, MaxItems),
        fail \in FailSets({"git worktree list --porcelain", "chdir", "git pull"}) :
     \E picks \in PicksIf(fzf), stdin \in Only(~fzf, Stdins(<<SelLines>>), "") :
       \E w \in {[World0 EXCEPT !.fzf = fzf, !.picks = picks, !.out = out, !.fail = fail]} :
         Do("worktree pull", <<>>, NoFlags, w, stdin) /\ runWorktreePull(<<>>, NoFlags, w, stdin)

RunSquash ==
  /\ Fresh
  /\ \E inRepo \in BOOLEAN :
     \E args \in Only(inRepo, {<<"2">>, <<"3">>, <<"1">>, <<"0">>, <<"-2">>, <<"two">>, <<"2x">>, <<"">>},
                      <<"2">>) :
     \E live \in {inRepo /\ args \in {<<"2">>, <<"3">>}} :
     \E message \in Only(live, {"", "one commit"}, ""), useAI \in Only(live, BOOLEAN, FALSE),
        out \in Only(live, Listings(MessageLines, MaxItems), <<>>),
        fail \in Only(live, FailSets({"git log --oneline -n", "git log --format=%B -n",
                                      "git reset --soft", "git commit -m"}), {}),
        stdin \in Only(live, Stdins(<<ConfLines>>), "") :
     \E ai \in Only(useAI /\ message = "", {"nokey", "fail", "ok"}, "nokey") :
     \E choices \in Only(ai = "ok", Responses, <<>>) :
       \E fl \in {[NoFlags EXCEPT !.message = message, !.useAI = useAI]},
          w \in {[World0 EXCEPT !.inRepo = inRepo, !.out = out, !.fail = fail, !.ai = ai,
                                !.choices = choices]} :
         Do("squash", args, fl, w, stdin) /\ runSquash(args, fl, w, stdin)

\* `git diff --cached --stat`
StatOutputs ==
  {<<>>, <<" test.txt | 1 +">>, <<" test.txt | 1 +", " 1 file changed, 1 insertion(+)">>}

\* `git diff --cached`
DiffOutputs == {<<>>, <<"diff --git a/test.txt b/test.txt", "+hello">>}

\* lines typed when asked for the commit type
TypeLines == {"", "1", "2", "7", "8", "perf", "fix it"}

\* what the user leaves in the message file: the file as it was, or a text
Edits ==
  {[keep |-> TRUE, text |-> ""], [keep |-> FALSE, text |-> ""],
   [keep |-> FALSE, text |-> "feat: add x\n# note\n\nbody\n"],
   [keep |-> FALSE, text |-> "  # indented\nfix: y"]}

RunCommit ==
  /\ Fresh
  /\ \E inRepo \in BOOLEAN :
     \E out \in Only(inRepo, StatOutputs, <<>>),
        fail \in Only(inRepo, FailSets({"git diff --cached --stat", "git diff --cached",
                                       "os.CreateTemp", "editor", "git commit -m"}), {}) :
     \E live \in {inRepo /\ out # <<>> /\ "git diff --cached --stat" \notin fail} :
     \E useAI \in Only(live, BOOLEAN, FALSE), skipEdit \in Only(live, BOOLEAN, FALSE) :
     \E commitType \in Only(live /\ ~useAI, {"", "feat"}, ""),
        diff \in Only(live /\ useAI, DiffOutputs, <<>>),
        ai \in Only(live /\ useAI, {"nokey", "fail", "ok"}, "nokey"),
        edit \in Only(live /\ ~skipEdit, Edits, [keep |-> TRUE, text |-> ""]) :
     \E choices \in Only(ai = "ok", Responses, <<>>),
        stdin \in Only(live /\ ~useAI /\ commitType = "", Stdins(<<TypeLines>>), "") :
       \E fl \in {[NoFlags EXCEPT !.useAI = useAI, !.skipEdit = skipEdit, !.commitType = commitType]},
          w \in {[World0 EXCEPT !.inRepo = inRepo, !.out = out, !.diff = diff, !.fail = fail,
                                !.ai = ai, !.choices = choices, !.edit = edit]} :
         Do("commit", <<>>, fl, w, stdin) /\ runCommit(<<>>, fl, w, stdin)

\* source URLs given to copy
SourceURLs ==
  {"https://github.com/user/repo", "git@github.com:user/repo.git",
   "http://github.com/user/repo", "https://gitlab.com/user/repo.git", ""}

\* values of --dest
Destinations == {"newuser/repo", "norepo", ""}

RunCopy ==
  /\ Fresh
  /\ \E sourceURL \in SourceURLs, dryRun \in BOOLEAN, git \in BOOLEAN, token \in BOOLEAN :
     \E live \in {~dryRun /\ parseGitHubURL(sourceURL).err = ""} :
     \E destination \in Only(parseGitHubURL(sourceURL).err = "", Destinations, "newuser/repo"),
        isOrg \in Only(live, BOOLEAN, FALSE), ssh \in Only(live, BOOLEAN, TRUE),
        gh \in Only(live /\ git /\ token, {"ok", "401", "422", "fail"}, "ok"),
        fail \in Only(live, FailSets({"os.MkdirTemp", "git clone --mirror", "git push --mirror"}), {}) :
       \E fl \in {[NoFlags EXCEPT !.dryRun = dryRun, !.destination = destination, !.isOrg = isOrg,
                                  !.ssh = ssh]},
          w \in {[World0 EXCEPT !.git = git, !.token = token, !.gh = gh, !.fail = fail]} :
         Do("copy", <<sourceURL>>, fl, w, "") /\ runCopy(<<sourceURL>>, fl, w, "")

RunRemove ==
  /\ Fresh
  /\ \E filePath \in {"a.txt", "sub/b.txt"}, removeForce \in BOOLEAN, exists \in BOOLEAN :
     \E git \in Only(exists, BOOLEAN, TRUE), inRepo \in Only(exists, BOOLEAN, TRUE),
        cwd \in Only(exists, {"/repo", "/repo/sub", "/elsewhere"}, "/repo"),
        fail \in Only(exists, FailSets({"git rev-parse --show-toplevel"}), {}) :
       \E fl \in {[NoFlags EXCEPT !.removeForce = removeForce]},
          w \in {[World0 EXCEPT !.git = git, !.inRepo = inRepo, !.cwd = cwd, !.exists = exists,
                                !.fail = fail]} :
         Do("remove", <<filePath>>, fl, w, "") /\ runRemove(<<filePath>>, fl, w, "")

RunUndo ==
  /\ Fresh
  /\ \E git \in BOOLEAN, inRepo \in BOOLEAN :
     \E live \in {git /\ inRepo} :
     \E hardReset \in Only(live, BOOLEAN, FALSE), numCommits \in Only(live, {1, 2}, 1),
        fail \in Only(live, FailSets({"git reset --soft", "git reset --hard",
                                      "git push origin HEAD --force-with-lease"}), {}),
        stdin \in Only(live, Stdins(<<ConfLines>>), "") :
       \E fl \in {[NoFlags EXCEPT !.hardReset = hardReset, !.numCommits = numCommits]},
          w \in {[World0 EXCEPT !.git = git, !.inRepo = inRepo, !.fail = fail]} :
         Do("undo", <<>>, fl, w, stdin) /\ runUndo(<<>>, fl, w, stdin)

RunPrune ==
  /\ Fresh
  /\ \E inRepo \in BOOLEAN :
     \E force \in Only(inRepo, BOOLEAN, FALSE), mainBranch \in Only(inRepo, {"main", "old-fix"}, "main"),
        out \in Only(inRepo, Listings(MergedLines, MaxItems), <<>>),
        fail \in Only(inRepo, FailSets({"git fetch -p", "git branch --merged", "git branch -d",
                                        "git branch -d feature-a"}), {}) :
     \E stdin \in Only(inRepo /\ ~force, Stdins(<<ConfLines>>), "") :
       \E fl \in {[NoFlags EXCEPT !.force = force, !.mainBranch = mainBranch]},
          w \in {[World0 EXCEPT !.inRepo = inRepo, !.out = out, !.fail = fail]} :
         Do("prune", <<>>, fl, w, stdin) /\ runPrune(<<>>, fl, w, stdin)

RunPruneRemotes ==
  /\ Fresh
  /\ \E inRepo \in BOOLEAN :
     \E forceMode \in Only(inRepo, BOOLEAN, FALSE), dryRun \in Only(inRepo, BOOLEAN, FALSE),
        rev \in Only(inRepo, BOOLEAN, FALSE),
        out \in Only(inRepo, Listings(RemoteLines, MaxItems), <<>>),
        down \in Only(inRepo, SUBSET {"git ls-remote --exit-code origin", "git ls-remote --exit-code fork",
                                      "git ls-remote --exit-code old"}, {}),
        fail \in Only(inRepo, FailSets({"git remote -v", "git remote remove", "git remote remove old"}), {}) :
     \E stdin \in Only(inRepo /\ ~forceMode /\ ~dryRun, Stdins(<<ConfLines>>), "") :
       \E fl \in {[NoFlags EXCEPT !.forceMode = forceMode, !.dryRun = dryRun]},
          w \in {[World0 EXCEPT !.inRepo = inRepo, !.out = out, !.fail = fail \cup down, !.rev = rev]} :
         Do("prune-remotes", <<>>, fl, w, stdin) /\ runPruneRemotes(<<>>, fl, w, stdin)

RunRefresh ==
  /\ Fresh
  /\ \E inRepo \in BOOLEAN :
     \E args \in Only(inRepo, {<<>>, <<"a.txt">>, <<"a.txt", "c.go">>}, <<>>),
        fixLineEndings \in Only(inRepo, BOOLEAN, FALSE), cleanUntracked \in Only(inRepo, BOOLEAN, FALSE),
        fail \in Only(inRepo, FailSets({"git status --porcelain", "git config core.autocrlf false",
                                        "git add --renormalize .", "git checkout --", "git clean -fd",
                                        "git reset --hard"}), {}) :
     \E dirty \in Only(cleanUntracked, BOOLEAN, FALSE) :
     \E stdin \in Only(dirty, Stdins(<<ConfLines>>), "") :
       \E fl \in {[NoFlags EXCEPT !.fixLineEndings = fixLineEndings, !.cleanUntracked = cleanUntracked]},
          w \in {[World0 EXCEPT !.inRepo = inRepo, !.dirty = dirty, !.fail = fail]} :
         Do("refresh", args, fl, w, stdin) /\ runRefresh(args, fl, w, stdin)

RunSync ==
  /\ Fresh
  /\ \E inRepo \in BOOLEAN :
     \E args \in Only(inRepo, {<<>>, <<"dev">>}, <<>>), noStash \in Only(inRepo, BOOLEAN, FALSE),
        force \in Only(inRepo, BOOLEAN, FALSE), dirty \in Only(inRepo, BOOLEAN, FALSE),
        fail \in Only(inRepo, SUBSET {"git status --porcelain", "date", "git stash save --include-untracked",
                                      "git fetch origin", "git pull --rebase origin", "git stash pop"}, {}) :
       \E fl \in {[NoFlags EXCEPT !.noStash = noStash, !.force = force]},
          w \in {[World0 EXCEPT !.inRepo = inRepo, !.dirty = dirty, !.fail = fail]} :
         Do("sync", args, fl, w, "") /\ runSync(args, fl, w, "")

RunRescue ==
  /\ Fresh
  /\ \E inRepo \in BOOLEAN :
     \E detached \in Only(inRepo, BOOLEAN, FALSE), args \in Only(inRepo, {<<>>, <<"saved">>}, <<>>),
        fail \in Only(inRepo, FailSets({"git rev-parse --verify HEAD", "git log --oneline -n",
                                        "git log -1 --pretty=%B", "git checkout -b"}), {}) :
     \E out \in Only(detached /\ args = <<>>, Listings(MessageLines, MaxItems), <<>>),
        stdin \in Only(detached /\ args = <<>>, Stdins(<<NameLines>>), "") :
       \E w \in {[World0 EXCEPT !.inRepo = inRepo, !.detached = detached, !.out = out, !.fail = fail]} :
         Do("rescue", args, NoFlags, w, stdin) /\ runRescue(args, NoFlags, w, stdin)

Next ==
  \/ RunSwitch
  \/ RunRestore
  \/ RunRecover
  \/ RunPurge
  \/ RunClean
  \/ RunResolve
  \/ RunBisect
  \/ RunCherryPick
  \/ RunWorktreeSwitch
  \/ RunWorktreePull
  \/ RunSquash
  \/ RunCommit
  \/ RunCopy
  \/ RunRemove
  \/ RunUndo
  \/ RunPrune
  \/ RunPruneRemotes
  \/ RunRefresh
  \/ RunSync
  \/ RunRescue

Spec == Init /\ [][Next]_vars

---------------------------------------------------------------------------
(* What a finished run shows *)

\* the external commands that change the repository, its configuration, its
\* working tree, its stash or a remote
MutatingCmds ==
  {"git checkout", "git checkout -b", "git checkout --", "git checkout --ours",
   "git checkout --theirs", "git reset --hard", "git reset --soft", "git filter-branch",
   "git push origin --force --all", "git push origin HEAD --force-with-lease",
   "git bisect start", "git bisect good", "git bisect bad", "git fetch origin", "git fetch -p",
   "git cherry-pick", "git pull", "git pull --rebase origin", "git commit -m", "git branch -d",
   "git remote remove", "git config core.autocrlf false", "git add", "git add --renormalize .",
   "git clean -fd", "git stash save --include-untracked", "git stash pop",
   "git clone --mirror", "git push --mirror"}

\* the destructive or irreversible ones
DestructiveCmds ==
  {"git reset --hard", "git checkout --", "git clean -fd", "git filter-branch", "git branch -d",
   "git remote remove", "git push origin --force --all", "git push origin HEAD --force-with-lease"}

Mutating(e) == e.k = "exec" /\ e.cmd \in MutatingCmds

Destructive(e) == e.k = "exec" /\ e.cmd \in DestructiveCmds

\* the positions of the run's trace holding an event of kind k
At(k) == {i \in 1..Len(res.trace) : res.trace[i].k = k}

\* the run called cmd
Called(cmd) == \E i \in At("exec") : res.trace[i].cmd = cmd

NoMutation == \A i \in 1..Len(res.trace) : ~Mutating(res.trace[i])

\* a selector call of the run that ended in cancellation
Cancelled(sel) == sel.strategy \in {"fzf", "list"} /\ sel.id = "" /\ sel.err = "" /\ ~sel.panic

SomeCancelled == \E k \in 1..Len(res.sels) : Cancelled(res.sels[k])

\* the handlers that use the interactive selector
Selecting ==
  {"switch", "restore", "recover", "purge", "clean", "resolve", "bisect", "cherry-pick",
   "worktree switch", "worktree pull"}

\* the run asked for confirmation and read the token tok
Answered(tok) == \E i \in At("answer") : res.trace[i].arg = tok

\* the handler's flag that waives the confirmation was given
Forced ==
  \/ inp.cmd = "prune" /\ inp.fl.force
  \/ inp.cmd = "prune-remotes" /\ inp.fl.forceMode

\* a decimal numeral
Numeral(tok) == tok # "" /\ AllIn(tok, Digits)

---------------------------------------------------------------------------
(* C1 *)

\* C1: in every run of a selecting handler in which a selection was
\* cancelled, the handler made no mutating external call at all, before or
\* after the selection.
C1_CancelNoMutation ==
  (inp.cmd \in Selecting /\ SomeCancelled) => NoMutation

---------------------------------------------------------------------------
(* C2 *)

\* C2: the exit status is 1 exactly when the handler reported an error, and a
\* run ending in a cancelled selection or a declined confirmation exits 0.
C2_ExitCodes ==
  /\ res.exit = 1 <=> res.err # ""
  /\ (res.exit = 0) \/ (res.exit = 1)
  /\ (SomeCancelled /\ ~res.panic) => res.exit = 0

---------------------------------------------------------------------------
(* C3 *)

\* C3: a run whose confirmation was answered "n" made no state-changing
\* external call, before or after the prompt, and ended without error.
C3_DeclineNoEffect ==
  Answered("n") => (NoMutation /\ res.err = "" /\ res.exit = 0)

---------------------------------------------------------------------------
(* C4 *)

\* C4: every destructive call of a run comes after a confirmation answered
\* exactly "y" or "Y" in that run, unless the handler's force flag was given.
C4_DestructiveNeedsConsent ==
  \A i \in 1..Len(res.trace) :
    Destructive(res.trace[i]) =>
      \/ Forced
      \/ \E j \in 1..(i - 1) : res.trace[j].k = "answer" /\ res.trace[j].arg \in {"y", "Y"}

---------------------------------------------------------------------------
(* C5 *)

\* the handlers that begin with checkGitRepo
RepoChecked ==
  {"switch", "restore", "recover", "purge", "clean", "bisect", "cherry-pick", "squash", "undo",
   "prune", "prune-remotes", "refresh", "sync", "rescue"}

\* the text a is not a decimal number (with an optional sign), or is one below 2
NotAtLeastTwo(a) ==
  LET body == IF a # "" /\ Head(a) \in {"+", "-"} THEN Tail(a) ELSE a
  IN ~Numeral(body) \/ Head(a) = "-" \/ DecVal(body, 0) < 2

---------------------------------------------------------------------------
(* C6 *)

\* the stash entry made by the run is still there when it ends
StashKept ==
  /\ Called("git stash save --include-untracked")
  /\ "git stash save --include-untracked" \notin inp.w.fail
  /\ ~(Called("git stash pop") /\ "git stash pop" \notin inp.w.fail)

\* the run stashed, and its fetch or its pull then failed
SyncFailedAfterStash ==
  /\ inp.cmd = "sync"
  /\ Called("git stash save --include-untracked")
  /\ "git stash save --include-untracked" \notin inp.w.fail
  /\ \/ Called("git fetch origin") /\ "git fetch origin" \in inp.w.fail
     \/ Called("git pull --rebase origin") /\ "git pull --rebase origin" \in inp.w.fail

\* C6: when sync has stashed and the fetch or the pull fails, the run does
\* not call `git stash pop` and the stash entry is kept.
C6_NoPopAfterFailure ==
  SyncFailedAfterStash => (res.err # "" /\ ~Called("git stash pop") /\ StashKept)

---------------------------------------------------------------------------
(* C7 *)

\* a selector call that had nothing to offer
EmptyCands(sel) == sel.cands = <<>> \/ sel.cands = <<"">>

\* C7: a selector with an empty candidate list ends in an error, and the run
\* has then neither launched fzf nor printed a menu line or a prompt; no menu
\* ever shows a single empty label.
C7_EmptyListIsError ==
  /\ \A k \in 1..Len(res.sels) :
       EmptyCands(res.sels[k]) =>
         /\ res.sels[k].err # ""
         /\ ~Called("fzf")
         /\ At("menu") = {} /\ At("prompt") = {}
  /\ \A i \in At("menu") : res.trace[i].arg # Pad2(1) \o ": "

---------------------------------------------------------------------------
(* C8 *)

\* the selection prompts of the list strategies printed in the run
SelectPrompts == {i \in At("prompt") : HasPrefix(res.trace[i].arg, "Select")}

\* the k-th selector call of the run got as far as reading its input
ReadDone(k) == ~res.sels[k].panic /\ Cardinality(SelectPrompts) >= k

\* the typed token names one of the n presented items
ValidIndex(tok, n) == Numeral(tok) /\ DecVal(tok, 0) \in 1..n

\* C8: in the list strategy (of the selectors that take an index), empty
\* input is a cancellation without error, and any other input that is not the
\* decimal index of a presented item is the error "invalid selection", which
\* the handler reports.
C8_InvalidSelection ==
  \A k \in 1..Len(res.sels) :
    (inp.cmd # "cherry-pick" /\ res.sels[k].strategy = "list" /\ ReadDone(k)) =>
      /\ res.sels[k].typed = "" => Cancelled(res.sels[k])
      /\ (res.sels[k].typed # "" /\ ~ValidIndex(res.sels[k].typed, Len(res.sels[k].cands))) =>
            /\ res.sels[k].err = "invalid selection"
            /\ res.err # "" /\ res.exit = 1

---------------------------------------------------------------------------
(* C9 *)

\* the token on standard input for the k-th selector call: the first
\* selector is the first reader of standard input
TokenFor(k) == IF k = 1 THEN Scanln(inp.stdin).tok ELSE res.sels[k].typed

\* C9: in the list strategy, a typed index i of 1..n returns the identifier
\* of the i-th presented item, with no error.
C9_ListRoundTrip ==
  \A k \in 1..Len(res.sels) :
    (inp.cmd # "cherry-pick" /\ res.sels[k].strategy = "list"
       /\ ValidIndex(TokenFor(k), Len(res.sels[k].cands))) =>
      /\ ~res.sels[k].panic /\ res.sels[k].err = ""
      /\ res.sels[k].id = res.sels[k].cands[DecVal(TokenFor(k), 0)]

---------------------------------------------------------------------------
(* C10 *)

\* the exit statuses of the fzf processes of the run, in order
FzfExits == SelectSeq(res.trace, LAMBDA e : e.k = "exit")

\* C10: a selector takes the fuzzy strategy exactly when noFzf is false and
\* fzf is on the search path, the list strategy otherwise; and a non-zero
\* exit of fzf is a cancellation, never an error.
C10_StrategyChoice ==
  /\ \A k \in 1..Len(res.sels) :
       res.sels[k].strategy \in {"fzf", "list"} =>
         (res.sels[k].strategy = "fzf" <=> (~inp.fl.noFzf /\ inp.w.fzf))
  /\ Len(FzfExits) <= Len(res.sels)
  /\ \A j \in 1..Len(FzfExits) :
       /\ res.sels[j].strategy = "fzf"
       /\ FzfExits[j].arg = "1" => Cancelled(res.sels[j])

\* restore --no-fzf where fzf is installed: the list strategy was taken
C10_Witness ==
  /\ inp.cmd = "restore" /\ inp.fl.noFzf /\ inp.w.fzf
  /\ Len(res.sels) = 1 /\ res.sels[1].strategy = "list" /\ res.sels[1].id # ""

---------------------------------------------------------------------------
(* C11 *)

\* the identifiers a selector call returned: cherry-pick's selector returns
\* several, every other selector at most one
Returned(sel) ==
  IF sel.id = "" THEN {}
  ELSE IF inp.cmd = "cherry-pick" THEN Range(Fields(sel.id)) ELSE {sel.id}

\* C11: every selector call ends in a result (it does not crash), and the
\* result is exactly one of Selected, Cancelled, Error: an error carries no
\* identifier, and a returned identifier is that of a presented item.  Two
\* calls of one run that present the same items and read the same input
\* return the same result, whatever the earlier one did.
C11_OneOutcome ==
  /\ \A k \in 1..Len(res.sels) :
       /\ ~res.sels[k].panic
       /\ res.sels[k].err # "" => res.sels[k].id = ""
       /\ Returned(res.sels[k]) \subseteq Range(res.sels[k].cands)
  /\ \A j, k \in 1..Len(res.sels) :
       (res.sels[j].strategy = "list" /\ res.sels[k].strategy = "list"
          /\ res.sels[j].cands = res.sels[k].cands /\ res.sels[j].typed = res.sels[k].typed) =>
         (res.sels[j].id = res.sels[k].id /\ res.sels[j].err = res.sels[k].err)

---------------------------------------------------------------------------
(* C12 *)

RECURSIVE Presented(_)
\* what the list strategies of the selector calls sels have to print, in
\* order: every candidate, with its 1-based index
Presented(sels) ==
  IF sels = <<>> THEN <<>>
  ELSE (IF Head(sels).strategy = "list"
        THEN [i \in 1..Len(Head(sels).cands) |-> [idx |-> i, id |-> Head(sels).cands[i]]]
        ELSE <<>>)
       \o Presented(Tail(sels))

\* the menu lines printed in the run, in order
Menus == SelectSeq(res.trace, LAMBDA e : e.k = "menu")

\* C12: the list strategy (of the selectors that take an index) prints one
\* line per candidate, in order, numbered from 1, so that the indices printed
\* are the indices accepted; also for a reflog of more than 20 entries.
C12_ListShowsAll ==
  (inp.cmd # "cherry-pick" /\ ~res.panic) =>
    /\ Len(Menus) = Len(Presented(res.sels))
    /\ \A i \in 1..Len(Menus) :
         HasPrefix(Menus[i].arg,
                   Pad2(Presented(res.sels)[i].idx) \o ": "
                     \o SubSeq(Presented(res.sels)[i].id, 1,
                               Min(Len(Presented(res.sels)[i].id), ShortHash)))

---------------------------------------------------------------------------
(* C13 *)

\* the world of the run with git taken off the search path, and with git
\* present but exiting non-zero
GitAbsent == [inp.w EXCEPT !.git = FALSE]

GitFailing == [inp.w EXCEPT !.git = TRUE, !.inRepo = FALSE, !.fail = @ \cup {DiffU}]

\* C13: what a caller is told when the executable is not on the search path
\* differs from what it is told when the executable ran and exited non-zero:
\* checkGitRepo and hasConflicts tell the two apart, and a run that could not
\* start git ends in an error other than that of a failed run.
C13_ToolNotFound ==
  inp.cmd # "" =>
    /\ checkGitRepo(Begin(""), GitAbsent).err # checkGitRepo(Begin(""), GitFailing).err
    /\ hasConflicts(Begin(""), GitAbsent).yes # hasConflicts(Begin(""), GitFailing).yes
    /\ ~inp.w.git =>
          res.err \notin {"", "not a git repository", "no merge conflicts found"}

---------------------------------------------------------------------------
(* C14 *)

\* the calls of cmd made in the run, in order
Attempts(cmd) == SelectSeq(res.trace, LAMBDA e : e.k = "exec" /\ e.cmd = cmd)

\* the command of the handler's best-effort loop
LoopCmd == IF inp.cmd = "prune" THEN "git branch -d" ELSE "git remote remove"

\* what the loop has to work through, in order: the branches prune listed as
\* "- <branch>", the remotes whose reachability check failed
Listed ==
  IF inp.cmd = "prune"
  THEN [i \in 1..Len(SelectSeq(res.trace, LAMBDA e : e.k = "print" /\ HasPrefix(e.arg, "- "))) |->
          Drop(SelectSeq(res.trace, LAMBDA e : e.k = "print" /\ HasPrefix(e.arg, "- "))[i].arg, 2)]
  ELSE [i \in 1..Len(SelectSeq(Attempts("git ls-remote --exit-code"),
                               LAMBDA e : ~Ok(inp.w, e.cmd, e.arg))) |->
          SelectSeq(Attempts("git ls-remote --exit-code"), LAMBDA e : ~Ok(inp.w, e.cmd, e.arg))[i].arg]

\* the user agreed to the loop, or waived the question
Consented == Forced \/ Answered("y") \/ Answered("Y")

\* the number of attempts of the loop that succeeded
Succeeded ==
  Cardinality({i \in 1..Len(Attempts(LoopCmd)) : Ok(inp.w, LoopCmd, Attempts(LoopCmd)[i].arg)})

\* the last line of the handler: the count it reports
Reported ==
  IF inp.cmd = "prune" THEN "Successfully deleted " \o Itoa(Succeeded) \o " merged branch(es)!"
  ELSE "Removed " \o Itoa(Succeeded) \o " unreachable remote(s)"

\* C14: once the user has agreed (or passed --force), the loops of prune and
\* prune-remotes attempt exactly one deletion / removal per listed item, in
\* list order, whether or not earlier attempts failed; the count reported is
\* the number of attempts that succeeded and the handler returns no error.
C14_BestEffortLoop ==
  (inp.cmd \in {"prune", "prune-remotes"} /\ Consented /\ ~inp.fl.dryRun /\ Listed # <<>>) =>
    /\ [i \in 1..Len(Attempts(LoopCmd)) |-> Attempts(LoopCmd)[i].arg] = Listed
    /\ res.trace[Len(res.trace)] = Ev("print", "", Reported)
    /\ res.err = "" /\ res.exit = 0

\* prune of two merged branches where the first deletion failed and the
\* second succeeded
C14_Witness ==
  /\ inp.cmd = "prune" /\ Len(Attempts("git branch -d")) = 2
  /\ ~Ok(inp.w, "git branch -d", Attempts("git branch -d")[1].arg)
  /\ Ok(inp.w, "git branch -d", Attempts("git branch -d")[2].arg)
  /\ res.trace[Len(res.trace)].arg = "Successfully deleted 1 merged branch(es)!"

---------------------------------------------------------------------------
(* C15 *)

\* sub occurs in s
Contains(s, sub) == \E i \in 0..(Len(s) - Len(sub)) : SubSeq(s, i + 1, i + Len(sub)) = sub

\* the staged-changes summary of the run's repository
Summary == JoinLines(inp.w.out)

\* what generateCommitMessage gives for the run's flags, input and summary
Generated == generateCommitMessage(Begin(inp.stdin), inp.fl, inp.w, Summary)

\* the requests the run sent to the text-generation API
Requests == SelectSeq(res.trace, LAMBDA e : e.k = "http")

\* the texts the run handed to the editor or to `git commit -m`
Passed == SelectSeq(res.trace, LAMBDA e : e.k = "exec" /\ e.cmd \in {"editor", "git commit -m"})

\* C15: in manual mode generateCommitMessage returns no error and a message
\* that contains the summary and starts with "<commitType>: " when --type is
\* given; with --ai and no API key it returns an error without sending a
\* request, and runCommit makes no commit.
C15_GenerateCommitMessage ==
  inp.cmd = "commit" =>
    /\ ~inp.fl.useAI =>
          /\ Generated.err = "" /\ ~Generated.panic
          /\ Contains(Generated.msg, Summary)
          /\ inp.fl.commitType # "" => HasPrefix(Generated.msg, inp.fl.commitType \o ": ")
          /\ Passed # <<>> => Passed[1].arg = Generated.msg
    /\ (inp.fl.useAI /\ inp.w.ai = "nokey") =>
          /\ Generated.err # "" /\ Generated.msg = ""
          /\ \A i \in 1..Len(Generated.s.trace) : Generated.s.trace[i].k # "http"
          /\ Requests = <<>> /\ Passed = <<>> /\ res.err # ""

\* commit --ai with staged changes and no API key: the run got as far as the
\* detailed diff and stopped there
C15_Witness ==
  /\ inp.cmd = "commit" /\ inp.fl.useAI /\ inp.w.ai = "nokey"
  /\ Attempts("git diff --cached") # <<>>
  /\ res.err = "OpenAI API key not found in config"

---------------------------------------------------------------------------
(* C16 *)

\* the text the run asked the generator about: the staged diff in commit,
\* the commit messages in squash
Diff == IF inp.cmd = "commit" THEN JoinLines(inp.w.diff) ELSE JoinLines(inp.w.out)

\* what CommitGenerator.GenerateCommitMessage gives for that text
Answer == GenerateCommitMessage(Begin(""), inp.w, Diff)

\* C16: a call of CommitGenerator.GenerateCommitMessage sends one request,
\* whose prompt contains the diff, and ends in a result for every response:
\* the trimmed content of the first choice and no error when the request
\* succeeded, an error and an empty message when it failed.
C16_GeneratorResult ==
  (inp.cmd \in {"commit", "squash"} /\ Requests # <<>>) =>
    /\ Len(Requests) = 1 /\ Contains(Requests[1].arg, Diff)
    /\ Len(Answer.s.trace) = 1 /\ Answer.s.trace[1] = Requests[1]
    /\ ~Answer.panic /\ ~res.panic
    /\ inp.w.ai = "ok" =>
          /\ Answer.err = ""
          /\ inp.w.choices # <<>> /\ Answer.msg = TrimSpace(inp.w.choices[1])
    /\ inp.w.ai # "ok" => Answer.err # "" /\ Answer.msg = ""

---------------------------------------------------------------------------
(* C19 *)

\* C19: no line of the message given to `git commit -m` by commit has '#'
\* as its first non-blank character, with or without --no-edit.
C19_NoCommentLines ==
  inp.cmd = "commit" =>
    \A i \in 1..Len(Attempts("git commit -m")) :
      \A line \in Range(SplitLines(Attempts("git commit -m")[i].arg)) :
        ~HasPrefix(TrimSpace(line), "#")

---------------------------------------------------------------------------
(* C17, C18 *)

\* the URL is of one of the two accepted forms
GitHubURL(url) == HasPrefix(url, "https://github.com/") \/ HasPrefix(url, "git@github.com:")

\* C17: copy with an invalid source URL is rejected before anything else,
\* with or without --dry-run; copy --dry-run with a valid one only prints:
\* no temporary directory, no clone, no repository creation, no push, and
\* no error.
C17_DryRunChangesNothing ==
  inp.cmd = "copy" =>
    /\ ~GitHubURL(inp.args[1]) => res.trace = <<>> /\ HasPrefix(res.err, "invalid GitHub URL format")
    /\ (GitHubURL(inp.args[1]) /\ inp.fl.dryRun) =>
          /\ \A i \in 1..Len(res.trace) : res.trace[i].k = "print"
          /\ res.err = "" /\ res.exit = 0 /\ ~res.panic

\* copy --dry-run of a valid URL in a world where the real run would have
\* cloned, created and pushed: the plan was printed
C17_Witness ==
  /\ inp.cmd = "copy" /\ inp.fl.dryRun /\ GitHubURL(inp.args[1])
  /\ inp.w.git /\ inp.w.token /\ inp.fl.destination = "newuser/repo"
  /\ Len(res.trace) = 11
  /\ res.trace[4] = Ev("print", "", "2. Clone " \o inp.args[1] \o " with --mirror flag")

\* the history rewrite of remove
Rewrites == SelectSeq(res.trace, LAMBDA e : e.k = "exec" /\ HasPrefix(e.cmd, "git filter-branch"))

\* C18: remove --force executes the filter-branch rewrite without asking;
\* without --force it only prints and rewrites nothing.
C18_ForceExecutes ==
  (inp.cmd = "remove" /\ res.err = "") =>
    /\ inp.fl.removeForce => Rewrites # <<>> /\ At("prompt") = {}
    /\ ~inp.fl.removeForce => Rewrites = <<>>

---------------------------------------------------------------------------
(* C20 *)

\* the positions in the run of the reachability checks and of the removals
CheckAt == {i \in At("exec") : res.trace[i].cmd = "git ls-remote --exit-code"}

RemovalAt == {i \in At("exec") : res.trace[i].cmd = "git remote remove"}

\* the check at position i failed
CheckFailed(i) == ~Ok(inp.w, "git ls-remote --exit-code", res.trace[i].arg)

\* C20: prune-remotes issues `git remote remove <name>` only for a remote
\* whose `git ls-remote --exit-code <name>` failed earlier in the run and
\* never for one whose check succeeded; with --dry it removes nothing; when
\* every remote is reachable, or none is configured, it removes nothing and
\* asks nothing.
C20_OnlyUnreachableRemoved ==
  inp.cmd = "prune-remotes" =>
    /\ \A i \in RemovalAt :
         /\ \E j \in CheckAt : j < i /\ res.trace[j].arg = res.trace[i].arg /\ CheckFailed(j)
         /\ \A j \in CheckAt : res.trace[j].arg = res.trace[i].arg => CheckFailed(j)
    /\ inp.fl.dryRun => RemovalAt = {}
    /\ (\A j \in CheckAt : ~CheckFailed(j)) => RemovalAt = {} /\ At("prompt") = {}

\* a run over a reachable and an unreachable remote that removed the
\* unreachable one and left the other
C20_Witness ==
  /\ inp.cmd = "prune-remotes" /\ Cardinality(CheckAt) = 2 /\ Cardinality(RemovalAt) = 1
  /\ \E j \in CheckAt : ~CheckFailed(j)
  /\ res.trace[Len(res.trace)].arg = "Removed 1 unreachable remote(s)"

---------------------------------------------------------------------------
(* C21 *)

\* the unit a size text ends in, the longest one that fits
UnitOf(size) ==
  IF HasSuffix(ToUpper(size), "KB") THEN "KB"
  ELSE IF HasSuffix(ToUpper(size), "MB") THEN "MB"
  ELSE IF HasSuffix(ToUpper(size), "GB") THEN "GB"
  ELSE IF HasSuffix(ToUpper(size), "B") THEN "B" ELSE ""

\* the text is <number><unit> with a whole number
SizeForm(size) ==
  /\ UnitOf(size) # ""
  /\ Len(size) > Len(UnitOf(size))
  /\ AllIn(SubSeq(size, 1, Len(size) - Len(UnitOf(size))), Digits)

\* the number of bytes such a text stands for
BytesOf(size) ==
  DecVal(SubSeq(size, 1, Len(size) - Len(UnitOf(size))), 0) * Multiplier(UnitOf(size))

\* C21: in clean, for a --min of the form <number><B|KB|MB|GB> in either
\* case, parseSize yields the number times the unit's multiplier and no
\* error, in whatever order the suffix table is visited, at every call of
\* the run.
C21_ParseSizeUnits ==
  (inp.cmd = "clean" /\ SizeForm(inp.fl.threshold)) =>
    /\ \A i \in 1..Len(inp.w.orders) :
         parseSize(inp.fl.threshold, inp.w.orders[i]) = [err |-> "", val |-> BytesOf(inp.fl.threshold)]
    /\ ~HasPrefix(res.err, "invalid size threshold")

---------------------------------------------------------------------------
(* C22 *)

\* the lines of `git branch --merged`, surrounding whitespace removed
MergedNames == {TrimSpace(inp.w.out[i]) : i \in 1..Len(inp.w.out)}

\* the branch checked out, which git marks with "* "
CurrentBranch == {TrimSpace(Drop(n, 1)) : n \in {m \in MergedNames : HasPrefix(m, "*")}}

\* the merged branches other than the current and the main one
Deletable == {n \in MergedNames : n # "" /\ ~HasPrefix(n, "*") /\ n # inp.fl.mainBranch}

\* C22: prune passes to `git branch -d` only lines of `git branch --merged`
\* with their surrounding whitespace removed, never the main branch, never
\* the current one; it uses no other deleting form of `git branch`; with no
\* merged branch to delete it asks nothing and deletes nothing.
C22_SafeDeletion ==
  inp.cmd = "prune" =>
    /\ \A i \in 1..Len(Attempts("git branch -d")) :
         /\ Attempts("git branch -d")[i].arg \in MergedNames
         /\ Attempts("git branch -d")[i].arg # inp.fl.mainBranch
         /\ Attempts("git branch -d")[i].arg \notin CurrentBranch
         /\ ~HasPrefix(Attempts("git branch -d")[i].arg, "*")
    /\ \A i \in At("exec") :
         HasPrefix(res.trace[i].cmd, "git branch") => res.trace[i].cmd \in {"git branch --merged", "git branch -d"}
    /\ Deletable = {} => Attempts("git branch -d") = <<>> /\ At("prompt") = {}

\* a prune run that met the main branch and a merged branch in the listing
\* and deleted the merged one
C22_Witness ==
  /\ inp.cmd = "prune" /\ inp.fl.mainBranch \in MergedNames
  /\ Len(Attempts("git branch -d")) = 1
  /\ Ok(inp.w, "git branch -d", Attempts("git branch -d")[1].arg)
  /\ res.trace[Len(res.trace)].arg = "Successfully deleted 1 merged branch(es)!"

---------------------------------------------------------------------------
(* C23 *)

\* the positions in the run of the three steps of copy and of the creation
\* and removal of the working directory
CloneAt == {i \in At("exec") : res.trace[i].cmd = "git clone --mirror"}

CreateAt == At("github")

PushAt == {i \in At("exec") : res.trace[i].cmd = "git push --mirror"}

\* --dest lacks the separator between owner and repository
MalformedDest == ~Contains(inp.fl.destination, "/")

---------------------------------------------------------------------------
(* C24 *)

\* the text of `git log --format=%B` in the run
LoggedMessages == JoinLines(inp.w.out)

\* the message squash is to use: -m first, then with --ai the generator's
\* answer or else the default message, then "squash: " and the default
SquashMessage ==
  IF inp.fl.message # "" THEN inp.fl.message
  ELSE IF inp.fl.useAI
  THEN IF inp.w.ai = "ok" /\ inp.w.choices # <<>> THEN TrimSpace(inp.w.choices[1])
       ELSE createDefaultMessage(LoggedMessages)
  ELSE "squash: " \o createDefaultMessage(LoggedMessages)

\* the run got the user's consent and, where it needs them, the messages
\* of the commits
ReadyToSquash ==
  /\ Answered("y") \/ Answered("Y")
  /\ (inp.fl.useAI \/ inp.fl.message = "") =>
        /\ Called("git log --format=%B -n")
        /\ Ok(inp.w, "git log --format=%B -n", Itoa(Atoi(inp.args[1]).val))

\* the positions of the reset and of the commit
ResetAt == {i \in At("exec") : res.trace[i].cmd = "git reset --soft"}

CommitAt == {i \in At("exec") : res.trace[i].cmd = "git commit -m"}

\* C24: squash commits with the message chosen by precedence (-m, then the
\* generated message or the default one when there is no key or generation
\* fails, then "squash: " and the default); it resets once, exactly when it
\* has consent and a message; it commits only after a reset that succeeded,
\* and does nothing more when that commit fails.
C24_SquashMessage ==
  inp.cmd = "squash" =>
    /\ Cardinality(ResetAt) <= 1 /\ Cardinality(CommitAt) <= 1
    /\ ResetAt # {} <=> ReadyToSquash
    /\ \A i \in ResetAt : res.trace[i].arg = "HEAD~" \o Itoa(Atoi(inp.args[1]).val)
    /\ \A j \in CommitAt :
         /\ res.trace[j].arg = SquashMessage
         /\ \E i \in ResetAt : i < j /\ Ok(inp.w, "git reset --soft", res.trace[i].arg)
         /\ ~Ok(inp.w, "git commit -m", res.trace[j].arg) =>
               /\ \A k \in At("exec") : k <= j
               /\ res.err = "failed to create squashed commit"
    /\ \A i \in ResetAt : Ok(inp.w, "git reset --soft", res.trace[i].arg) => CommitAt # {}

---------------------------------------------------------------------------
(* C25 *)

\* the positions in the run of the steps of sync
StashAt == {i \in At("exec") : res.trace[i].cmd = "git stash save --include-untracked"}

PopAt == {i \in At("exec") : res.trace[i].cmd = "git stash pop"}

FetchAt == {i \in At("exec") : res.trace[i].cmd = "git fetch origin"}

PullAt == {i \in At("exec") : res.trace[i].cmd = "git pull --rebase origin"}

\* the run found uncommitted changes
FoundChanges ==
  /\ inp.w.inRepo /\ inp.w.dirty /\ Ok(inp.w, "git status --porcelain", "")

\* C25: sync with uncommitted changes, --no-stash and no --force returns an
\* error before any fetch or pull; after a stash that failed no fetch or
\* pull follows; after a stash, a fetch and a pull that all succeeded, `git
\* stash pop` runs exactly once and after the pull; without uncommitted
\* changes no stash and no stash pop is issued.
C25_SyncOrder ==
  inp.cmd = "sync" =>
    /\ (FoundChanges /\ inp.fl.noStash /\ ~inp.fl.force) =>
          res.err # "" /\ FetchAt = {} /\ PullAt = {} /\ StashAt = {}
    /\ (StashAt # {} /\ ~Ok(inp.w, "git stash save --include-untracked", "")) =>
          res.err # "" /\ FetchAt = {} /\ PullAt = {}
    /\ (StashAt # {} /\ Ok(inp.w, "git stash save --include-untracked", "")
          /\ PullAt # {} /\ Ok(inp.w, "git fetch origin", "")
          /\ \A i \in PullAt : Ok(inp.w, "git pull --rebase origin", res.trace[i].arg)) =>
          /\ Cardinality(PopAt) = 1
          /\ \A k \in PopAt : \A i \in StashAt \cup FetchAt \cup PullAt : i < k
    /\ ~FoundChanges => StashAt = {} /\ PopAt = {}
    /\ Cardinality(StashAt) <= 1 /\ Cardinality(FetchAt) <= 1 /\ Cardinality(PullAt) <= 1
    /\ \A i \in PullAt : \E j \in FetchAt : j < i /\ Ok(inp.w, "git fetch origin", "")

\* a sync that stashed the changes, fetched, pulled and popped the stash
C25_Witness ==
  /\ inp.cmd = "sync" /\ FoundChanges /\ res.err = ""
  /\ Cardinality(StashAt) = 1 /\ Cardinality(PullAt) = 1 /\ Cardinality(PopAt) = 1
  /\ Ok(inp.w, "git stash pop", "")
  /\ \A k \in PopAt : \A i \in PullAt : i < k

---------------------------------------------------------------------------
(* C26 *)

\* the hashes on the line typed at the prompt of cherry-pick
TypedHashes == Fields(SubSeq(inp.stdin, 1, IndexOf(inp.stdin, "\n")))

\* how many of them are to be attempted: all, or up to the first that fails
PicksDue ==
  IF \A i \in 1..Len(TypedHashes) : Ok(inp.w, "git cherry-pick", TypedHashes[i])
  THEN Len(TypedHashes)
  ELSE CHOOSE n \in 1..Len(TypedHashes) :
         /\ ~Ok(inp.w, "git cherry-pick", TypedHashes[n])
         /\ \A i \in 1..(n - 1) : Ok(inp.w, "git cherry-pick", TypedHashes[i])

\* the run asked for the hashes at the list prompt
ListSelection ==
  /\ inp.cmd = "cherry-pick" /\ Len(res.sels) = 1
  /\ res.sels[1].strategy = "list" /\ At("prompt") # {}

\* C26: at the list prompt of cherry-pick, k >= 1 hashes typed on the line
\* are all returned, in the order typed, and `git cherry-pick` is attempted
\* for each in that order up to the first that fails; an empty line returns
\* no commits.
C26_ListOfHashes ==
  ListSelection =>
    /\ res.sels[1].id = JoinWith(TypedHashes, " ")
    /\ [i \in 1..Len(Attempts("git cherry-pick")) |-> Attempts("git cherry-pick")[i].arg]
         = SubSeq(TypedHashes, 1, PicksDue)
    /\ TypedHashes = <<>> => res.err = "no commits selected"
    /\ ~res.panic

---------------------------------------------------------------------------
(* C27 *)

\* the hashes of the run's listing: the first field of each line that has one
ListedHashes == {Fields(inp.w.out[i])[1] : i \in {j \in 1..Len(inp.w.out) : Fields(inp.w.out[j]) # <<>>}}

\* C27: restore, recover and cherry-pick never end in a panic, whatever
\* the length of the hashes in the reflog or log lines they read.
C27_NoPanic ==
  (inp.cmd \in {"restore", "recover", "cherry-pick"} /\ ListedHashes # {}) =>
    /\ ~res.panic
    /\ \A k \in 1..Len(res.sels) : ~res.sels[k].panic

====
